---------------------------- MODULE Spec2Model ----------------------------
(***************************************************************************)
(* A model of the type-erasure engine of include/any/any.hpp: owning       *)
(* wrappers (any<Interface>, built on _value_proxy_root), pointer wrappers *)
(* (any_ptr / any_const_ptr, built on _reference_proxy_root), the          *)
(* small-buffer / heap storage policy, the transfer protocol (_move_to,    *)
(* _copy_to, _slice_to_), the casts and the equality capability.           *)
(*                                                                         *)
(* Sizes are counted in pointer words.  A payload model is one vtable word *)
(* plus the words of the concrete value.  Every handler is one atomic      *)
(* action; the temporaries a handler creates (the by-value parameter of a  *)
(* converting constructor, the `temp` of swap, the temporary of copy       *)
(* assignment) live in the scratch wrapper slots "t1" and "t2" and are     *)
(* destroyed before the action ends, as their destructors run in the code. *)
(***************************************************************************)
EXTENDS Integers, Sequences, FiniteSets, TLC

(***************************************************************************)
(* Bounds of the model                                                     *)
(***************************************************************************)
\* number of heap blocks the allocator can hand out; a freed block is never
\* handed out again, so that a stale pointer stays recognisable
MaxBlocks == 2
\* payload values are 0..MaxVal; 0 (the empty string) is also the value a
\* moved-from string is left with
MaxVal == 1

Values == 0 .. MaxVal
Blocks == 1 .. MaxBlocks

(***************************************************************************)
(* Concrete payload types: int and std::string, and a one-word class       *)
(* "thrower" whose move constructor is not noexcept                        *)
(***************************************************************************)
Types == {"int", "str"}
PayloadTypes == Types \cup {"thrower"}

\* sizeof(Value) in words
ValueWords == [int |-> 1, str |-> 4, thrower |-> 1]

\* std::is_nothrow_move_constructible_v
NothrowMove == [int |-> TRUE, str |-> TRUE, thrower |-> FALSE]

\* std::is_nothrow_copy_constructible_v: the copy of a string allocates
NothrowCopy == [int |-> TRUE, str |-> FALSE, thrower |-> FALSE]

\* the value a moved-from object is left with: an int keeps its value, a
\* string is left empty
MovedFrom(T, v) == IF T = "int" THEN v ELSE 0

\* sizeof(_value_model<Interface, Value>): the vtable pointer and the value
ModelWords(T) == 1 + ValueWords[T]

(***************************************************************************)
(* Interfaces and the composition algebra                                  *)
(***************************************************************************)
Interfaces == {"imovable", "icopyable", "iequality_comparable",
               "isemiregular", "ifoo", "ibar", "ibaz"}

\* the extension list of each interface (_bases_type)
BasesOf == [imovable |-> <<>>,
            icopyable |-> <<"imovable">>,
            iequality_comparable |-> <<>>,
            isemiregular |-> <<"icopyable", "iequality_comparable">>,
            ifoo |-> <<>>,
            ibar |-> <<"ifoo", "icopyable">>,
            ibaz |-> <<"ibar">>]

\* 3 * sizeof(void *), in words
default_buffer_size == 3

\* the BufferSize template argument of each interface
DeclaredSize == [i \in Interfaces |-> IF i = "ibaz" THEN 5 ELSE default_buffer_size]

\* sizeof(_tagged_ptr), the minimum of the abstract root
iroot_buffer_size == 1

SeqToSet(s) == {s[i] : i \in 1 .. Len(s)}

\* a chain is the sequence of interface layers over a root, innermost first.
\* The layer is found in the chain itself, not in the abstract chain the
\* root derives from (_has_box_kind)
_already_implements(chain, I) == I \in SeqToSet(chain)

\* a faulty extends::call: a base is applied again even when the chain
\* already implements it
RECURSIVE _mcall_reapply(_, _, _)
_mcall_reapply(G, bases, chain) ==
    IF bases = <<>> THEN chain
    ELSE _mcall_reapply(G, Tail(bases),
                        Append(_mcall_reapply(G, G[Head(bases)], chain), Head(bases)))

RECURSIVE _mcall(_, _, _)
\* _mcall<extends<B1, ..., Bn>, Base> = extends<B1, ..., Bn>::call<Base>,
\* where G gives the extension list (_bases_of) of every interface
_mcall(G, bases, chain) ==
    IF bases = <<>> THEN chain
    ELSE LET B == Head(bases)
             BasesOfBase == _mcall(G, G[B], chain)
         IN  _mcall(G, Tail(bases),
                    IF _already_implements(chain, B)
                    THEN BasesOfBase
                    ELSE Append(BasesOfBase, B))

\* extends<B1, ..., Bn>::call<Base> for the interfaces of the program
call(bases, chain) == _mcall(BasesOf, bases, chain)

\* the list backwards
Reversed(l) == [i \in 1 .. Len(l) |-> l[Len(l) + 1 - i]]

\* a faulty iabstract: the extension list is applied from its last entry to
\* its first
iabstract_of_reversed(G, I, bases) == Append(_mcall(G, Reversed(bases), <<>>), I)

\* iabstract<Interface, BaseInterfaces> = Interface<_mcall<BaseInterfaces, _iroot>>
\* for an interface I whose extension list is bases
iabstract_of(G, I, bases) == Append(_mcall(G, bases, <<>>), I)

\* iabstract<Interface> = Interface<_mcall<_bases_of<Interface>, _iroot>>
iabstract(I) == Append(call(BasesOf[I], <<>>), I)

\* a faulty _buffer_size: the size the outermost layer declares, whatever
\* its bases need
_buffer_size_of_outermost(sizes, chain) ==
    IF chain = <<>> THEN iroot_buffer_size ELSE sizes[chain[Len(chain)]]

RECURSIVE _buffer_size_of(_, _)
\* interface<...>::_buffer_size of a chain, innermost layer first, where
\* sizes gives the BufferSize argument of every interface:
\* BufferSize > Base::_buffer_size ? BufferSize : Base::_buffer_size, and
\* _iroot::_buffer_size at the root
_buffer_size_of(sizes, chain) ==
    IF chain = <<>> THEN iroot_buffer_size
    ELSE LET BufferSize == sizes[chain[Len(chain)]]
             Base == _buffer_size_of(sizes, SubSeq(chain, 1, Len(chain) - 1))
         IN  IF BufferSize > Base THEN BufferSize ELSE Base

MaxDeclared(chain) == _buffer_size_of(DeclaredSize, chain)

\* iabstract<Interface>::_buffer_size
_buffer_size(I) == MaxDeclared(iabstract(I))

\* extension_of<iabstract<I>, B>
extension_of(I, B) == B \in SeqToSet(iabstract(I))

\* std::derived_from<X, I> for two abstract chains: every layer derives from
\* the layer below it, so X derives from I when the chain of I is the
\* innermost part of the chain of X
derives(cx, ci) == Len(ci) <= Len(cx) /\ SubSeq(cx, 1, Len(ci)) = ci

\* std::derived_from<iabstract<X>, iabstract<I>>
derived_from(X, I) == derives(iabstract(X), iabstract(I))

_movable(I) == extension_of(I, "imovable")
_copyable(I) == extension_of(I, "icopyable")
_equality(I) == extension_of(I, "iequality_comparable")

\* a faulty _is_small: only the size is looked at
_is_small_by_size(I, T, size) == ModelWords(T) <= size

\* _is_small<Model>(buffer_size), Model = _value_model<I, T>
_is_small(I, T, size) ==
    LET nothrow_movable == ~extension_of(I, "imovable") \/ NothrowMove[T]
    IN  ModelWords(T) <= size /\ nothrow_movable

(***************************************************************************)
(* Storage                                                                 *)
(***************************************************************************)
\* the owning wrappers of the program, and the scratch slots that hold the
\* temporaries of a handler
Wrappers == {"a", "b", "c"}
Temps == {"t1", "t2"}
Slots == Wrappers \cup Temps

\* the interface of each wrapper, and of the pointer wrappers "p" and "q",
\* in the programs that are explored
Configs == {
    [a |-> "isemiregular", b |-> "isemiregular", c |-> "iequality_comparable",
     p |-> "iequality_comparable", q |-> "iequality_comparable"],
    [a |-> "isemiregular", b |-> "isemiregular", c |-> "icopyable",
     p |-> "icopyable", q |-> "imovable"],
    [a |-> "ibaz", b |-> "ibaz", c |-> "ifoo", p |-> "ibaz", q |-> "icopyable"] }

\* a payload: the concrete type, its value, and the interface mi of the
\* _value_model<mi, type> that wraps it
PL(T, v, mi) == [type |-> T, val |-> v, mi |-> mi]
NoPL == [type |-> "void", val |-> 0, mi |-> "none"]

\* addresses as integers. Objects are aligned to two bytes at least, so the
\* address of a heap block and the address of a vtable are even; the vtable
\* of a model depends on its interface and its value type
HeapAddress(b) == 2 * b
TypeIndex == [int |-> 1, str |-> 2, thrower |-> 3]
VtableAddress(mi, T) == 2 * (MaxBlocks + TypeIndex[T])

\* _tagged_ptr::_tagged_ptr(): the default word
_tagged_ptr_default == 1

\* a faulty _tagged_ptr(void *): the low bit is not set
_tagged_ptr_untagged(ptr) == ptr

\* _tagged_ptr::_tagged_ptr(void *ptr): ptr | 1
_tagged_ptr(ptr) == IF ptr % 2 = 0 THEN ptr + 1 ELSE ptr

\* _tagged_ptr::_is_vptr: (data_ & 1) == 0
_is_vptr(data) == data % 2 = 0

\* _tagged_ptr::_get: data_ & ~1
_get(data) == data - (data % 2)

\* _tagged_ptr::operator==(nullptr_t)
_is_nullptr(data) == data = _tagged_ptr_default

\* the buffer of a _value_proxy_root. data is its first word, read as a
\* _tagged_ptr; tag records what was last stored in the buffer: "null" the
\* default _tagged_ptr, "insitu" a model constructed in the buffer (pl; the
\* first word is then the vtable pointer of the model), "heap" a tagged
\* pointer to the model in block blk
Null == [alive |-> TRUE, tag |-> "null", blk |-> 0, pl |-> NoPL,
         data |-> _tagged_ptr_default]
Dead == [alive |-> FALSE, tag |-> "null", blk |-> 0, pl |-> NoPL,
         data |-> _tagged_ptr_default]
InSitu(pl) == [alive |-> TRUE, tag |-> "insitu", blk |-> 0, pl |-> pl,
               data |-> VtableAddress(pl.mi, pl.type)]
HeapPtr(b) == [alive |-> TRUE, tag |-> "heap", blk |-> b, pl |-> NoPL,
               data |-> _tagged_ptr(HeapAddress(b))]

\* a heap block: never handed out, holding a model, or deleted (nfree counts
\* the deletes)
Unalloc == [st |-> "unalloc", nfree |-> 0, pl |-> NoPL]
Live(pl) == [st |-> "live", nfree |-> 0, pl |-> pl]
Freed(n) == [st |-> "freed", nfree |-> n, pl |-> NoPL]

\* addresses of payloads: in the buffer of a wrapper, in a heap block, or a
\* concrete object of the program
NullAddr == [k |-> "null", id |-> "none"]
BufAddr(w) == [k |-> "buf", id |-> w]
HeapAddr(b) == [k |-> "heap", id |-> ToString(b)]
ObjAddr == [k |-> "obj", id |-> "o"]

Min(S) == CHOOSE x \in S : \A y \in S : x <= y

FreeBlocks(M) == {b \in DOMAIN M.heap : M.heap[b].st = "unalloc"}

\* the wrapper holds a tagged pointer to a block that has been deleted
Dangling(M, w) == M.wr[w].tag = "heap" /\ M.heap[M.wr[w].blk].st # "live"

\* the model the proxy holds: value(proxy)
Payload(M, w) ==
    IF M.wr[w].tag = "insitu" THEN M.wr[w].pl
    ELSE IF M.wr[w].tag = "heap" THEN M.heap[M.wr[w].blk].pl
    ELSE NoPL

SetPayloadVal(M, w, v) ==
    IF M.wr[w].tag = "insitu" THEN [M EXCEPT !.wr[w].pl.val = v]
    ELSE IF M.wr[w].tag = "heap" THEN [M EXCEPT !.heap[M.wr[w].blk].pl.val = v]
    ELSE M

Stop(M, how) == [M EXCEPT !.status = how]

(***************************************************************************)
(* _value_proxy_root                                                       *)
(***************************************************************************)
\* _value_proxy_root::_empty_. Under constant evaluation the wrapper is its
\* pointer_ alone: a null pointer_ is written as the record Null and a
\* pointer_ to a model allocated with new as the record HeapPtr of its block
_empty_(M, w) == _is_nullptr(M.wr[w].data)

\* _value_proxy_root::_in_situ_ (_tagged_ptr::_is_vptr)
_in_situ_(M, w) == IF M.consteval THEN FALSE ELSE _is_vptr(M.wr[w].data)

\* _value_proxy_root::_type_
_type_(M, w) == IF _empty_(M, w) THEN "void" ELSE Payload(M, w).type

\* _value_proxy_root::_data_
_data_(M, w) ==
    IF _empty_(M, w) THEN NullAddr
    ELSE IF _in_situ_(M, w) THEN BufAddr(w)
    ELSE HeapAddr(M.wr[w].blk)

\* _value_proxy_root::_value_proxy_root()
ctor_default(M, w, I) ==
    IF M.status # "run" THEN M
    ELSE [M EXCEPT !.wr[w] = Null, !.ifc[w] = I]

\* the buffer of w is about to be written over: a model that lives in it,
\* and has not been destroyed, is lost (lost counts them during a handler)
Overwrite(M, w) ==
    IF M.wr[w].tag = "insitu" THEN [M EXCEPT !.lost = M.lost + 1] ELSE M

\* a faulty _emplace_into: the model is always allocated on the heap
_emplace_into_heap(M, w, mi, T, v) ==
    IF M.status # "run" THEN M
    ELSE IF FreeBlocks(M) = {} THEN Stop(M, "bound")
    ELSE LET b == Min(FreeBlocks(M))
         IN  [M EXCEPT !.heap[b] = Live(PL(T, v, mi)), !.wr[w] = HeapPtr(b)]

\* _emplace_into<Model>(pointer, buffer, args...), Model = _value_model<mi, T>.
\* The buffer is overwritten whatever it held
_emplace_into(M, w, mi, T, v) ==
    LET M0 == Overwrite(M, w)
    IN  IF M.status # "run" THEN M
        ELSE IF ~M.consteval /\ _is_small(mi, T, _buffer_size(M.ifc[w]))
        THEN [M0 EXCEPT !.wr[w] = InSitu(PL(T, v, mi))]
        ELSE IF FreeBlocks(M) = {} THEN Stop(M, "bound")
        ELSE LET b == Min(FreeBlocks(M))
             IN  [M0 EXCEPT !.heap[b] = Live(PL(T, v, mi)), !.wr[w] = HeapPtr(b)]

\* _value_proxy_root::_emplace_
_emplace_(M, w, T, v) == _emplace_into(M, w, M.ifc[w], T, v)

\* a faulty _reset_: the payload is destroyed or deleted but the tagged
\* pointer is not set back to the default
_reset_keeps_pointer(M, w) ==
    IF M.status # "run" THEN M
    ELSE IF M.wr[w].tag = "heap" /\ M.heap[M.wr[w].blk].st = "live"
    THEN [M EXCEPT !.heap[M.wr[w].blk] = Freed(1)]
    ELSE M

\* _value_proxy_root::_reset_
_reset_(M, w) ==
    IF M.status # "run" THEN M
    ELSE IF _empty_(M, w) THEN M
    ELSE IF _in_situ_(M, w) THEN [M EXCEPT !.wr[w] = Null]
    ELSE IF M.heap[M.wr[w].blk].st = "live"
    THEN [M EXCEPT !.heap[M.wr[w].blk] = Freed(1), !.wr[w] = Null]
    ELSE \* delete of a block that was deleted before
         [M EXCEPT !.heap[M.wr[w].blk] = Freed(2), !.wr[w] = Null, !.status = "ub"]

\* _value_proxy_root::emplace
emplace(M, w, T, v) == _emplace_(_reset_(M, w), w, T, v)

\* _value_proxy_root::~_value_proxy_root
dtor(M, w) ==
    LET M1 == _reset_(M, w)
    IN  [M1 EXCEPT !.wr[w] = Dead]

\* _value_root::_reset_: a no-op
_value_root_reset_(M, w) == M

\* _value_model::_move_to, called on the model that src holds, into the
\* buffer of dst
_move_to(M, src, dst) ==
    IF M.status # "run" THEN M
    ELSE IF Dangling(M, src) THEN Stop(M, "ub")
    ELSE LET p == Payload(M, src)
             pre == _is_small(p.mi, p.type, _buffer_size(M.ifc[dst]))
         IN  IF ~pre /\ ~M.nd THEN Stop(M, "abort")
             ELSE LET M1 == _emplace_into(M, dst, p.mi, p.type, p.val)
                      M2 == IF M1.status # "run" THEN M1
                            ELSE SetPayloadVal(M1, src, MovedFrom(p.type, p.val))
                  IN  _value_root_reset_(M2, src)

\* _value_model::_copy_to
_copy_to(M, src, dst) ==
    IF M.status # "run" THEN M
    ELSE IF Dangling(M, src) THEN Stop(M, "ub")
    ELSE LET p == Payload(M, src)
             small == ~M.consteval /\ _is_small(p.mi, p.type, _buffer_size(M.ifc[dst]))
         IN  \* the copy constructor of the value raises, or ::new does
             IF M.throws /\ (~NothrowCopy[p.type] \/ ~small) THEN Stop(M, "throw")
             ELSE _emplace_into(M, dst, p.mi, p.type, p.val)

RECURSIVE swap(_, _, _, _)
\* _value_proxy_root::swap; tmp is the slot of `temp`
swap(M, this, other, tmp) ==
    IF M.status # "run" THEN M
    ELSE IF M.consteval \* std::swap(pointer_, other.pointer_)
    THEN [M EXCEPT !.wr[this] = M.wr[other], !.wr[other] = M.wr[this]]
    ELSE IF this = other THEN M
    ELSE IF ~_in_situ_(M, this) /\ ~_in_situ_(M, other)
    THEN [M EXCEPT !.wr[this] = M.wr[other], !.wr[other] = M.wr[this]]
    ELSE IF _empty_(M, this) THEN _move_to(M, other, this)
    ELSE IF _empty_(M, other) THEN _move_to(M, this, other)
    ELSE LET M0 == swap(ctor_default(M, tmp, M.ifc[this]), tmp, this, tmp)
             M1 == _move_to(M0, other, this)
             M2 == _move_to(M1, tmp, other)
         IN  dtor(M2, tmp)

\* _value_proxy_root::_value_proxy_root(_value_proxy_root &&)
move_ctor(M, this, other, tmp) ==
    swap(ctor_default(M, this, M.ifc[other]), this, other, tmp)

\* a faulty copy constructor: the buffer of the source is copied as it is,
\* tagged pointer included
copy_ctor_shallow(M, this, other) ==
    LET M0 == ctor_default(M, this, M.ifc[other])
    IN  IF M0.status # "run" THEN M0 ELSE [M0 EXCEPT !.wr[this] = M.wr[other]]

\* _value_proxy_root::_value_proxy_root(_value_proxy_root const &), a
\* constructor that delegates to the default constructor: when its body is
\* left by an exception the destructor runs on this. If the model was being
\* built in the buffer, its constructor has stored the model's vtable address
\* in the first word before the copy of the value raised, and _reset_ destroys
\* a model that was never built; if the model was being built on the heap the
\* buffer still holds the default tagged pointer
copy_ctor(M, this, other) ==
    LET M0 == ctor_default(M, this, M.ifc[other])
        M1 == IF _empty_(M0, other) THEN M0 ELSE _copy_to(M0, other, this)
    IN  IF M1.status # "throw" THEN M1
        ELSE IF /\ ~M1.consteval
                /\ _is_small(Payload(M1, other).mi, Payload(M1, other).type,
                             _buffer_size(M1.ifc[this]))
        THEN Stop(M1, "ub")
        ELSE Stop(dtor([M1 EXCEPT !.status = "run"], this), "throw")

\* _value_proxy_root::operator=(_value_proxy_root &&)
move_assign(M, this, other, tmp) ==
    IF this = other THEN M
    ELSE swap(_reset_(M, this), this, other, tmp)

\* _value_proxy_root::operator=(_value_proxy_root const &)
copy_assign(M, this, other, tmp, tmp2) ==
    IF this = other THEN M
    ELSE dtor(swap(copy_ctor(M, tmp, other), tmp, this, tmp2), tmp)

(***************************************************************************)
(* Conversion between owning wrappers of different interfaces              *)
(***************************************************************************)
\* interface<_object>::_slice_to_ on a _value_root model, followed by the
\* reset of interface<_proxy>::_slice_to_: the value is moved out of the model
\* src holds into a new model of out's interface, then src is reset
_slice_to_(M, src, out) ==
    IF M.status # "run" THEN M
    ELSE IF Dangling(M, src) THEN Stop(M, "ub")
    ELSE LET p  == Payload(M, src)
             M1 == SetPayloadVal(M, src, MovedFrom(p.type, p.val))
             M2 == emplace(M1, out, p.type, p.val)
         IN  _reset_(M2, src)

\* any::_as_large_as<Other>, the noexcept condition of the converting
\* constructor, of the converting assignment and of _assign, for a
\* value-rooted Other: dst and src are the interfaces of the two wrappers
_as_large_as(dst, src) == _buffer_size(dst) >= _buffer_size(src)

\* any::_assign(Interface<Other> &&) for a value-rooted other
_assign(M, this, other) ==
    LET ptr_convertible == derived_from(M.ifc[other], M.ifc[this])
    IN  IF M.status # "run" THEN M
        ELSE IF _empty_(M, other) THEN M
        ELSE IF ~ptr_convertible THEN _slice_to_(M, other, this)
        ELSE IF _in_situ_(M, other) THEN _slice_to_(M, other, this)
        ELSE IF M.consteval \* pointer_ = std::exchange(other.pointer_, nullptr)
        THEN [M EXCEPT !.wr[this] = M.wr[other], !.wr[other] = Null]
        ELSE \* the tagged pointer is copied; other keeps its own
             [Overwrite(M, this) EXCEPT
                 !.wr[this].tag = "heap", !.wr[this].blk = M.wr[other].blk,
                 !.wr[this].data = M.wr[other].data]

\* the by-value parameter `other` of the converting constructor and
\* assignment, built in slot t1 from the argument src
by_value(M, src, byMove) ==
    IF byMove THEN move_ctor(M, "t1", src, "t2") ELSE copy_ctor(M, "t1", src)

\* any::any(Interface<Other> other)
convert_ctor(M, this, src, byMove) ==
    LET M0 == by_value(M, src, byMove)
        M1 == ctor_default(M0, this, M.ifc[this])
    IN  dtor(_assign(M1, this, "t1"), "t1")

\* any::operator=(Interface<Other> other)
convert_assign(M, this, src, byMove) ==
    LET M0 == by_value(M, src, byMove)
        M1 == _reset_(M0, this)
    IN  dtor(_assign(M1, this, "t1"), "t1")

(***************************************************************************)
(* _reference_proxy_root and the pointer wrappers                          *)
(***************************************************************************)
\* the buffer of a _reference_proxy_root: "null", "direct" (a tagged pointer
\* to a model that lives elsewhere) or "indirect" (an embedded
\* _reference_model<Interface, CvValue> whose value_ is addr and whose static
\* value type is type)
NullPtr == [kind |-> "null", addr |-> NullAddr, type |-> "void"]
Direct(addr) == [kind |-> "direct", addr |-> addr, type |-> "void"]
Indirect(addr, T) == [kind |-> "indirect", addr |-> addr, type |-> T]

\* the model or object at an address is alive
AddrValid(M, addr) ==
    \/ addr.k = "obj"
    \/ \E w \in Slots : addr = BufAddr(w) /\ M.wr[w].alive /\ M.wr[w].tag = "insitu"
    \/ \E b \in Blocks : addr = HeapAddr(b) /\ M.heap[b].st = "live"

\* the payload at an address
At(M, addr) ==
    IF addr.k = "obj" THEN PL(M.obj.type, M.obj.val, "none")
    ELSE IF addr.k = "buf" THEN M.wr[addr.id].pl
    ELSE IF addr.k = "heap"
    THEN M.heap[CHOOSE b \in Blocks : HeapAddr(b) = addr].pl
    ELSE NoPL

SetAt(M, addr, v) ==
    IF addr.k = "obj" THEN [M EXCEPT !.obj.val = v]
    ELSE IF addr.k = "buf" THEN [M EXCEPT !.wr[addr.id].pl.val = v]
    ELSE IF addr.k = "heap"
    THEN [M EXCEPT !.heap[CHOOSE b \in Blocks : HeapAddr(b) = addr].pl.val = v]
    ELSE M

\* what the pointer wrapper refers to is alive and, for an embedded
\* reference model, still of the type it was bound to
PtrValid(M, q) ==
    \/ q.kind = "null"
    \/ q.kind = "direct" /\ AddrValid(M, q.addr)
    \/ q.kind = "indirect" /\ AddrValid(M, q.addr) /\ At(M, q.addr).type = q.type

\* _any_ptr_base::_proxy_assign(CvValueProxy *) with
\* _reference_proxy_root::_model_bind_ and ::_object_bind_; P is the
\* interface of the pointer wrapper
_proxy_assign(M, P, w) ==
    IF _empty_(M, w) THEN NullPtr
    ELSE IF derived_from(M.ifc[w], P) THEN Direct(_data_(M, w))
    ELSE Indirect(_data_(M, w), Payload(M, w).type)

\* _any_ptr_base::_value_assign with _reference_proxy_root::_value_bind_
_value_assign(M) == Indirect(ObjAddr, M.obj.type)

\* a pointer wrapper that has not been constructed, or has been destroyed
DeadPtr == [kind |-> "dead", addr |-> NullAddr, type |-> "void"]

\* _reference_proxy_root::_empty_, ::_type_, ::_data_, ::_is_indirect_
ref_empty_(q) == q.kind = "null"
ref_is_indirect_(q) == q.kind = "indirect"
ref_type_(M, q) ==
    IF ref_empty_(q) THEN "void"
    ELSE IF ref_is_indirect_(q) THEN q.type
    ELSE At(M, q.addr).type
ref_data_(M, q) == IF ref_empty_(q) THEN NullAddr ELSE q.addr

\* what a handler of a pointer wrapper leaves: the memory, and the buffer of
\* its reference proxy
PR(M, q) == [mem |-> M, ref |-> q]

\* a faulty _reset_ of a reference proxy: the payload it refers to is
\* destroyed, as if the proxy owned it
ref_reset_owning(M, q) ==
    IF ~PtrValid(M, q) \/ q.kind \in {"null", "dead"} THEN PR(M, NullPtr)
    ELSE IF q.addr.k = "buf" THEN PR([M EXCEPT !.wr[q.addr.id] = Null], NullPtr)
    ELSE IF q.addr.k = "heap"
    THEN PR([M EXCEPT !.heap[CHOOSE b \in Blocks : HeapAddr(b) = q.addr] = Freed(1)],
            NullPtr)
    ELSE PR([M EXCEPT !.obj.val = 0], NullPtr)

\* _reference_proxy_root::_reset_: the tagged pointer is set to its default
ref_reset_(M, q) == PR(M, NullPtr)

\* _reference_proxy_root::_copy: the buffer is copied
ref_copy(M, other) == PR(M, other)

\* _reference_proxy_root::swap: the buffers are exchanged
ref_swap(M, this, other) == [mem |-> M, ref |-> other, other |-> this]

\* _any_ptr_base::_proxy_assign(CvReferenceProxy *): the reference proxy of
\* a pointer wrapper of interface Q is bound to what the reference proxy
\* other of a pointer wrapper of interface P refers to
_proxy_assign_ref(M, Q, P, other) ==
    IF ref_empty_(other) THEN PR(M, NullPtr)
    ELSE IF Q = P THEN ref_copy(M, other)
    ELSE IF ref_is_indirect_(other) THEN PR(M, Indirect(other.addr, other.type))
    ELSE IF derived_from(P, Q) THEN PR(M, Direct(other.addr))
    ELSE IF ~PtrValid(M, other) THEN PR(Stop(M, "ub"), NullPtr)
    ELSE PR(M, Indirect(other.addr, At(M, other.addr).type))

\* _any_ptr_base::_any_ptr_base(_any_ptr_base<OtherInterface> const &), the
\* copy constructor when Q = P
ptr_ctor(M, Q, P, other) == _proxy_assign_ref(M, Q, P, other)

\* _any_ptr_base::operator=(_any_ptr_base<OtherInterface> const &), the copy
\* assignment when Q = P
ptr_assign(M, Q, this, P, other) ==
    _proxy_assign_ref(ref_reset_(M, this).mem, Q, P, other)

\* _any_ptr_base::operator=(_any_ptr_base const &) with other the wrapper
\* itself, and any_ptr::operator=(Proxy *) with proxy_ptr the address of its
\* own reference proxy: reference_ is reset, and then read as the source
ptr_assign_self(M, Q, this) ==
    LET r == ref_reset_(M, this)
    IN  _proxy_assign_ref(r.mem, Q, Q, r.ref)

\* _any_ptr_base::operator=(std::nullptr_t)
ptr_assign_null(M, this) == ref_reset_(M, this)

\* swap(_any_ptr_base &, _any_ptr_base &)
ptr_swap(M, lhs, rhs) == ref_swap(M, lhs, rhs)

\* ~_any_ptr_base, ~_reference_proxy_root: nothing is done at run time
ptr_dtor(M, this) == PR(M, DeadPtr)

\* interface<_proxy>::_slice_to_ on a reference proxy: a direct reference
\* dispatches to the _slice_to_ of the value model it aliases, an embedded
\* reference model copies its referant
ref_slice_to_(M, q, out) ==
    IF M.status # "run" THEN M
    ELSE LET p  == At(M, q.addr)
             is_value == ~ref_is_indirect_(q)
             M1 == IF is_value THEN SetAt(M, q.addr, MovedFrom(p.type, p.val)) ELSE M
         IN  emplace(M1, out, IF is_value THEN p.type ELSE q.type, p.val)

\* any::_assign(Interface<Other> &&) for a reference-rooted other
ref_assign(M, this, q) ==
    IF ref_empty_(q) THEN M ELSE ref_slice_to_(M, q, this)

\* any::any(Interface<Other> const &)
ref_ctor(M, this, q) == ref_assign(ctor_default(M, this, M.ifc[this]), this, q)

\* any::operator=(Interface<Other> const &)
ref_assign_op(M, this, q) ==
    IF ref_data_(M, q) = _data_(M, this) THEN M
    ELSE ref_assign(_reset_(M, this), this, q)

(***************************************************************************)
(* Casts and equality                                                      *)
(***************************************************************************)
\* what a cast sees of a proxy: an owning wrapper, or the reference proxy of
\* a pointer wrapper of interface P.  mi is the interface of the model the
\* proxy leads to, ok tells that the model is alive
value_view(M, w) ==
    [null |-> FALSE,
     empty |-> _empty_(M, w), type |-> _type_(M, w), data |-> _data_(M, w),
     mi |-> Payload(M, w).mi, iface |-> M.ifc[w], ok |-> ~Dangling(M, w)]

reference_view(M, q, P) ==
    [null |-> FALSE,
     empty |-> ref_empty_(q), type |-> ref_type_(M, q), data |-> ref_data_(M, q),
     mi |-> IF ref_is_indirect_(q) THEN P ELSE At(M, q.addr).mi,
     iface |-> P, ok |-> PtrValid(M, q)]

\* what a cast is given when its argument is a null Interface<Base> * of
\* interface P: there is no proxy behind the pointer, and nothing that can
\* be read through it
nullptr_view(P) ==
    [null |-> TRUE, empty |-> FALSE, type |-> "void", data |-> NullAddr,
     mi |-> "none", iface |-> P, ok |-> FALSE]

BadCast == [k |-> "bad_cast", id |-> "none"]
Bool(x) == [k |-> "bool", id |-> IF x THEN "true" ELSE "false"]
NoOut == [k |-> "none", id |-> "none"]

Ok(out) == [st |-> "run", out |-> out]
Fail(how) == [st |-> how, out |-> NoOut]

\* _any_static_cast_t<T>::_cast_ with _polymorphic_downcast: the model is
\* taken for a _value_root<Interface, T> (a _reference_root<Interface, T> for
\* an embedded reference model), Interface being the interface of the proxy;
\* with assertions on, the downcast checks the dynamic type of the model
_any_static_cast(V, T, nd) ==
    IF ~V.ok THEN Fail("ub")
    ELSE IF V.mi = V.iface /\ V.type = T THEN Ok(V.data)
    ELSE IF ~nd THEN Fail("abort")
    ELSE IF V.type = T THEN Ok(V.data)
    ELSE Fail("ub")

\* a faulty checked cast: the type of the payload is not compared
_any_dynamic_cast_unchecked(V, T, nd) == _any_static_cast(V, T, nd)

\* _any_dynamic_cast_t<T>::operator()
_any_dynamic_cast(V, T, nd) ==
    IF ~V.ok THEN Fail("ub")
    ELSE IF V.type = T THEN _any_static_cast(V, T, nd)
    ELSE Ok(NullAddr)

\* _basic_cast_t<T, _any_dynamic_cast_t>::operator()(Interface<Base> *)
any_cast_ptr(V, T, nd) ==
    IF V.null \/ V.empty THEN Ok(NullAddr) ELSE _any_dynamic_cast(V, T, nd)

\* a faulty reference cast: the null result is passed on instead of raising
\* bad-cast
any_cast_ref_no_throw(V, T, nd) == any_cast_ptr(V, T, nd)

\* _basic_cast_t<T, _any_dynamic_cast_t>::operator()(Interface<Base> &), and
\* the const & and && overloads
any_cast_ref(V, T, nd) ==
    LET r == any_cast_ptr(V, T, nd)
    IN  IF r.st = "run" /\ r.out = NullAddr THEN Ok(BadCast) ELSE r

CastForms == {"ptr", "cptr", "ref", "cref", "rref"}

any_cast(V, T, form, nd) ==
    IF form \in {"ptr", "cptr"} THEN any_cast_ptr(V, T, nd) ELSE any_cast_ref(V, T, nd)

\* a faulty unchecked cast: the pointer and the proxy are not tested before
\* the model is downcast
any_static_cast_ptr_unguarded(V, T, nd) == _any_static_cast(V, T, nd)

\* _basic_cast_t<T, _any_static_cast_t>::operator()(Interface<Base> *)
any_static_cast_ptr(V, T, nd) ==
    IF V.null \/ V.empty THEN Ok(NullAddr) ELSE _any_static_cast(V, T, nd)

\* _basic_cast_t<T, _any_static_cast_t>::operator()(Interface<Base> &), and
\* the const & and && overloads
any_static_cast_ref(V, T, nd) ==
    LET r == any_static_cast_ptr(V, T, nd)
    IN  IF r.st = "run" /\ r.out = NullAddr THEN Ok(BadCast) ELSE r

any_static_cast(V, T, form, nd) ==
    IF form \in {"ptr", "cptr"} THEN any_static_cast_ptr(V, T, nd)
    ELSE any_static_cast_ref(V, T, nd)

\* a faulty equality: an empty left operand is taken to be equal to
\* anything, the types are compared only afterwards
_equal_to_empty_first(M, x, y, nd) ==
    LET other == _proxy_assign(M, "iequality_comparable", y)
        type  == _type_(M, x)
    IN  IF Dangling(M, x) \/ Dangling(M, y) THEN Fail("ub")
        ELSE IF type = "void" THEN Ok(Bool(TRUE))
        ELSE IF type # ref_type_(M, other) THEN Ok(Bool(FALSE))
        ELSE Ok(Bool(Payload(M, x).val = At(M, ref_data_(M, other)).val))

\* a faulty equality: only the types are compared
_equal_to_by_type(M, x, y, nd) ==
    IF Dangling(M, x) \/ Dangling(M, y) THEN Fail("ub")
    ELSE Ok(Bool(_type_(M, x) = _type_(M, y)))

\* iequality_comparable::operator== and ::_equal_to, x == y for two owning
\* wrappers: first on the proxy x, then on the model x holds
_equal_to(M, x, y, nd) ==
    LET other == _proxy_assign(M, "iequality_comparable", y)
        type  == _type_(M, x)
    IN  IF Dangling(M, x) \/ Dangling(M, y) THEN Fail("ub")
        ELSE IF type # ref_type_(M, other) THEN Ok(Bool(FALSE))
        ELSE IF type = "void" THEN Ok(Bool(TRUE))
        ELSE LET r == _any_static_cast(
                          reference_view(M, other, "iequality_comparable"), type, nd)
             IN  IF r.st # "run" THEN r
                 ELSE Ok(Bool(Payload(M, x).val = At(M, r.out).val))

(***************************************************************************)
(* The state machine                                                       *)
(***************************************************************************)
VARIABLES
    wr,      \* the buffer of every wrapper slot
    heap,    \* the heap blocks
    obj,     \* the concrete object "o" of the program
    ptr,     \* the reference proxy of the pointer wrapper "p"
    qtr,     \* the reference proxy of the pointer wrapper "q"
    comp,    \* an extension graph and the chain composed from it
    ceval,   \* the wrappers and the heap of the program when it is run under
             \* constant evaluation
    iface,   \* the interface of each wrapper and of the pointer wrapper
    status,  \* "run", "abort" (a failed assertion) or "ub"
    last     \* the call that has just run, with its arguments, its result and
             \* the number of in-place models it wrote over

vars == <<wr, heap, obj, ptr, qtr, comp, ceval, iface, status, last>>

L(op, w, src, T, v, form, out) ==
    [op |-> op, w |-> w, src |-> src, type |-> T, val |-> v, form |-> form, out |-> out,
     lost |-> 0]

\* no call is in progress: the program is between two statements
NoCall == L("none", "none", "none", "void", 0, "none", NoOut)

\* the memory a handler starts from; nd tells that assertions are compiled
\* out (NDEBUG), lost counts the in-place models the handler writes over
\* without destroying them, throws tells that copying a payload raises (its
\* copy constructor, or the allocation for the copy)
Mem(nd) ==
    [wr |-> wr, heap |-> heap, obj |-> obj,
     ifc |-> [s \in Slots |-> IF s \in Wrappers THEN iface[s] ELSE "none"],
     status |-> "run", nd |-> nd, consteval |-> FALSE, lost |-> 0, throws |-> FALSE]

\* the program is about to run its next statement
Ready == status = "run" /\ last = NoCall

\* the handler ran to its end, or stopped the program; a handler that needs
\* more than MaxBlocks blocks is not explored
Commit(M, l) ==
    /\ M.status # "bound"
    /\ wr' = M.wr
    /\ heap' = M.heap
    /\ obj' = M.obj
    /\ status' = M.status
    /\ last' = [l EXCEPT !.lost = M.lost]
    /\ UNCHANGED <<iface, qtr, comp, ceval>>

\* what is known of a composition: the extension graph, and once an
\* interface has been composed, the interface, its extension list, the
\* BufferSize arguments, the chain and its buffer size
Composition(G, op, I, bases, sizes, chain, size) ==
    [graph |-> G, op |-> op, ifc |-> I, bases |-> bases, sizes |-> sizes,
     chain |-> chain, size |-> size]

\* the programs over wrappers compose no interface of their own
NoComp == Composition(<<>>, "none", 0, <<>>, <<>>, <<>>, 0)

\* a handler of a pointer wrapper ran to its end
CommitPtr(M, l) ==
    /\ wr' = M.wr
    /\ heap' = M.heap
    /\ obj' = M.obj
    /\ status' = M.status
    /\ last' = l
    /\ UNCHANGED <<iface, comp, ceval>>

\* the program under constant evaluation before its first statement
NoConsteval ==
    [wr |-> [s \in Slots |-> Dead], heap |-> [b \in Blocks |-> Unalloc],
     status |-> "run"]

Init ==
    /\ iface \in Configs
    /\ wr = [s \in Slots |-> Dead]
    /\ heap = [b \in Blocks |-> Unalloc]
    /\ obj = [type |-> "str", val |-> 1]
    /\ ptr = NullPtr
    /\ qtr = DeadPtr
    /\ ceval = NoConsteval
    /\ comp = NoComp
    /\ status = "run"
    /\ last = NoCall

Alive(w) == wr[w].alive
SameInterface(x, y) == iface[x] = iface[y]

\* src can be converted to dst: any<iface[dst]> has a constructor from the
\* Interface<Other> base of any<iface[src]>
Convertible(dst, src) ==
    /\ iface[dst] # iface[src]
    /\ extension_of(iface[src], iface[dst])
    /\ _movable(iface[src])

\* the statement is over: its result has been used and its temporaries are
\* gone
Return ==
    /\ status = "run" /\ last # NoCall
    /\ last' = NoCall
    /\ UNCHANGED <<wr, heap, obj, ptr, qtr, comp, ceval, iface, status>>

\* any::any()
Construct(w) ==
    /\ Ready /\ ~Alive(w)
    /\ Commit(ctor_default(Mem(TRUE), w, iface[w]),
              L("construct", w, "none", "void", 0, "none", NoOut))
    /\ UNCHANGED ptr

\* any::any(Value)
ConstructValue(w, T, v) ==
    /\ Ready /\ ~Alive(w)
    /\ Commit(_emplace_(ctor_default(Mem(TRUE), w, iface[w]), w, T, v),
              L("construct_value", w, "none", T, v, "none", NoOut))
    /\ UNCHANGED ptr

\* any::operator=(Value)
AssignValue(w, T, v) ==
    /\ Ready /\ Alive(w)
    /\ Commit(_emplace_(_reset_(Mem(TRUE), w), w, T, v),
              L("assign_value", w, "none", T, v, "none", NoOut))
    /\ UNCHANGED ptr

\* any::reset(w)
Reset(w) ==
    /\ Ready /\ Alive(w)
    /\ Commit(_reset_(Mem(TRUE), w), L("reset", w, "none", "void", 0, "none", NoOut))
    /\ UNCHANGED ptr

\* any::~any()
Destroy(w) ==
    /\ Ready /\ Alive(w)
    /\ Commit(dtor(Mem(TRUE), w), L("destroy", w, "none", "void", 0, "none", NoOut))
    /\ UNCHANGED ptr

\* any::any(any const &)
CopyConstruct(w, src) ==
    /\ Ready /\ ~Alive(w) /\ Alive(src)
    /\ SameInterface(w, src) /\ _copyable(iface[w])
    /\ Commit(copy_ctor(Mem(TRUE), w, src),
              L("copy_construct", w, src, "void", 0, "none", NoOut))
    /\ UNCHANGED ptr

\* any::any(any &&)
MoveConstruct(w, src) ==
    /\ Ready /\ ~Alive(w) /\ Alive(src)
    /\ SameInterface(w, src) /\ _movable(iface[w])
    /\ \E nd \in BOOLEAN :
         Commit(move_ctor(Mem(nd), w, src, "t1"),
                L("move_construct", w, src, "void", 0, "none", NoOut))
    /\ UNCHANGED ptr

\* any::operator=(any const &)
CopyAssign(w, src) ==
    /\ Ready /\ Alive(w) /\ Alive(src)
    /\ SameInterface(w, src) /\ _copyable(iface[w])
    /\ \E nd \in BOOLEAN :
         Commit(copy_assign(Mem(nd), w, src, "t1", "t2"),
                L("copy_assign", w, src, "void", 0, "none", NoOut))
    /\ UNCHANGED ptr

\* any::operator=(any &&)
MoveAssign(w, src) ==
    /\ Ready /\ Alive(w) /\ Alive(src)
    /\ SameInterface(w, src) /\ _movable(iface[w])
    /\ \E nd \in BOOLEAN :
         Commit(move_assign(Mem(nd), w, src, "t1"),
                L("move_assign", w, src, "void", 0, "none", NoOut))
    /\ UNCHANGED ptr

\* swap(any &, any &)
Swap(w, src) ==
    /\ Ready /\ Alive(w) /\ Alive(src)
    /\ SameInterface(w, src) /\ _movable(iface[w])
    /\ \E nd \in BOOLEAN :
         Commit(swap(Mem(nd), w, src, "t1"),
                L("swap", w, src, "void", 0, "none", NoOut))
    /\ UNCHANGED ptr

Way(byMove) == IF byMove THEN "move" ELSE "copy"

\* any::any(Interface<Other> other), from an lvalue (the parameter is a copy
\* of src) or from an rvalue (the parameter is moved out of src)
ConvertConstruct(w, src, byMove) ==
    /\ Ready /\ ~Alive(w) /\ Alive(src)
    /\ Convertible(w, src) /\ (byMove \/ _copyable(iface[src]))
    /\ \E nd \in BOOLEAN :
         Commit(convert_ctor(Mem(nd), w, src, byMove),
                L("convert_construct", w, src, "void", 0, Way(byMove), NoOut))
    /\ UNCHANGED ptr

\* any::operator=(Interface<Other> other)
ConvertAssign(w, src, byMove) ==
    /\ Ready /\ Alive(w) /\ Alive(src)
    /\ Convertible(w, src) /\ (byMove \/ _copyable(iface[src]))
    /\ \E nd \in BOOLEAN :
         Commit(convert_assign(Mem(nd), w, src, byMove),
                L("convert_assign", w, src, "void", 0, Way(byMove), NoOut))
    /\ UNCHANGED ptr

\* any::addressof(w), converted to the pointer wrapper p when its interface
\* is one that the interface of w extends: any_ptr(Proxy *)
AddressOf(w) ==
    /\ Ready /\ Alive(w)
    /\ extension_of(iface[w], iface.p)
    /\ IF Dangling(Mem(TRUE), w) /\ ~derived_from(iface[w], iface.p)
       THEN /\ status' = "ub"
            /\ UNCHANGED ptr
       ELSE /\ ptr' = _proxy_assign(Mem(TRUE), iface.p, w)
            /\ UNCHANGED status
    /\ last' = L("addressof", "p", w, "void", 0, "none", NoOut)
    /\ UNCHANGED <<wr, heap, obj, iface, qtr, comp, ceval>>

\* any_ptr(Value *) on the concrete object
PtrToObject ==
    /\ Ready
    /\ ptr' = _value_assign(Mem(TRUE))
    /\ last' = L("ptr_to_object", "p", "o", "void", 0, "none", NoOut)
    /\ UNCHANGED <<wr, heap, obj, iface, status, qtr, comp, ceval>>

\* _any_ptr_base::operator=(std::nullptr_t)
PtrNull ==
    /\ Ready
    /\ LET r == ptr_assign_null(Mem(TRUE), ptr)
       IN  /\ ptr' = r.ref
           /\ CommitPtr(r.mem, L("ptr_null", "p", "none", "void", 0, "none", NoOut))
    /\ UNCHANGED qtr

\* any_ptr<Q> q(p): the copy constructor when p and q have the same
\* interface, the converting constructor otherwise
PtrConstruct ==
    /\ Ready /\ qtr = DeadPtr
    /\ extension_of(iface.p, iface.q)
    /\ LET r == ptr_ctor(Mem(TRUE), iface.q, iface.p, ptr)
       IN  /\ qtr' = r.ref
           /\ CommitPtr(r.mem, L("ptr_construct", "q", "p", "void", 0, "none", NoOut))
    /\ UNCHANGED ptr

\* q = p
PtrAssign ==
    /\ Ready /\ qtr # DeadPtr
    /\ extension_of(iface.p, iface.q)
    /\ LET r == ptr_assign(Mem(TRUE), iface.q, qtr, iface.p, ptr)
       IN  /\ qtr' = r.ref
           /\ CommitPtr(r.mem, L("ptr_assign", "q", "p", "void", 0, "none", NoOut))
    /\ UNCHANGED ptr

\* p = p (form "direct") and p = &*p (form "deref")
PtrAssignSelf(form) ==
    /\ Ready
    /\ LET r == ptr_assign_self(Mem(TRUE), iface.p, ptr)
       IN  /\ ptr' = r.ref
           /\ CommitPtr(r.mem, L("ptr_assign_self", "p", "p", "void", 0, form, NoOut))
    /\ UNCHANGED qtr

\* swap(p, q)
PtrSwap ==
    /\ Ready /\ qtr # DeadPtr
    /\ iface.p = iface.q
    /\ LET r == ptr_swap(Mem(TRUE), ptr, qtr)
       IN  /\ ptr' = r.ref
           /\ qtr' = r.other
           /\ CommitPtr(r.mem, L("ptr_swap", "p", "q", "void", 0, "none", NoOut))

\* q goes out of scope
PtrDestroy ==
    /\ Ready /\ qtr # DeadPtr
    /\ LET r == ptr_dtor(Mem(TRUE), qtr)
       IN  /\ qtr' = r.ref
           /\ CommitPtr(r.mem, L("ptr_destroy", "q", "none", "void", 0, "none", NoOut))
    /\ UNCHANGED ptr

\* *p can be converted to any<iface[w]>
RefConvertible(w) ==
    /\ extension_of(iface.p, iface[w])
    /\ _copyable(iface.p)

\* any::any(Interface<Other> const &) from *p
RefConstruct(w) ==
    /\ Ready /\ ~Alive(w)
    /\ RefConvertible(w) /\ PtrValid(Mem(TRUE), ptr)
    /\ Commit(ref_ctor(Mem(TRUE), w, ptr),
              L("ref_construct", w, "p", "void", 0, "none", NoOut))
    /\ UNCHANGED ptr

\* any::operator=(Interface<Other> const &) from *p
RefAssign(w) ==
    /\ Ready /\ Alive(w)
    /\ RefConvertible(w) /\ PtrValid(Mem(TRUE), ptr)
    /\ Commit(ref_assign_op(Mem(TRUE), w, ptr),
              L("ref_assign", w, "p", "void", 0, "none", NoOut))
    /\ UNCHANGED ptr

\* any_cast<T &>(w) = v, T the type w holds
Mutate(w, v) ==
    /\ Ready /\ Alive(w) /\ ~_empty_(Mem(TRUE), w)
    /\ \E nd \in BOOLEAN :
         LET M == Mem(nd)
             r == any_cast_ref(value_view(M, w), _type_(M, w), nd)
         IN  Commit(IF r.st = "run" THEN SetAt(M, r.out, v) ELSE Stop(M, r.st),
                    L("mutate", w, "none", "void", v, "none", NoOut))
    /\ UNCHANGED ptr

\* *any_cast<T>(p) = v, T the type p refers to
MutateViaPtr(v) ==
    /\ Ready /\ ~ref_empty_(ptr)
    /\ PtrValid(Mem(TRUE), ptr)
    /\ \E nd \in BOOLEAN :
         LET M == Mem(nd)
             r == any_cast_ptr(reference_view(M, ptr, iface.p), ref_type_(M, ptr), nd)
         IN  Commit(IF r.st = "run" THEN SetAt(M, r.out, v) ELSE Stop(M, r.st),
                    L("mutate_via_ptr", "p", "none", "void", v, "none", r.out))
    /\ UNCHANGED ptr

\* any_cast<T>(...) on an owning wrapper
Cast(w, T, form) ==
    /\ Ready /\ Alive(w)
    /\ \E nd \in BOOLEAN :
         LET r == any_cast(value_view(Mem(nd), w), T, form, nd)
         IN  /\ status' = r.st
             /\ last' = L("cast", w, "none", T, 0, form, r.out)
    /\ UNCHANGED <<wr, heap, obj, ptr, qtr, comp, ceval, iface>>

\* any_cast<T>(p) and any_cast<T>(*p) on the pointer wrapper
CastPtr(T, form) ==
    /\ Ready /\ PtrValid(Mem(TRUE), ptr)
    /\ \E nd \in BOOLEAN :
         LET r == any_cast(reference_view(Mem(nd), ptr, iface.p), T, form, nd)
         IN  /\ status' = r.st
             /\ last' = L("cast", "p", "none", T, 0, form, r.out)
    /\ UNCHANGED <<wr, heap, obj, ptr, qtr, comp, ceval, iface>>

\* any_static_cast<T>(...) on an owning wrapper
StaticCast(w, T, form) ==
    /\ Ready /\ Alive(w)
    /\ \E nd \in BOOLEAN :
         LET r == any_static_cast(value_view(Mem(nd), w), T, form, nd)
         IN  /\ status' = r.st
             /\ last' = L("static_cast", w, "none", T, 0, form, r.out)
    /\ UNCHANGED <<wr, heap, obj, ptr, qtr, comp, ceval, iface>>

\* any_static_cast<T>(p) and any_static_cast<T>(*p) on the pointer wrapper
StaticCastPtr(T, form) ==
    /\ Ready /\ PtrValid(Mem(TRUE), ptr)
    /\ \E nd \in BOOLEAN :
         LET r == any_static_cast(reference_view(Mem(nd), ptr, iface.p), T, form, nd)
         IN  /\ status' = r.st
             /\ last' = L("static_cast", "p", "none", T, 0, form, r.out)
    /\ UNCHANGED <<wr, heap, obj, ptr, qtr, comp, ceval, iface>>

\* any_cast<T>(ptr) and any_static_cast<T>(ptr) where ptr is a null
\* Interface<Base> * or Interface<Base> const *
CastNull(T, form, checked) ==
    /\ Ready
    /\ \E nd \in BOOLEAN :
         LET V == nullptr_view(iface.a)
             r == IF checked THEN any_cast(V, T, form, nd)
                  ELSE any_static_cast(V, T, form, nd)
         IN  /\ status' = r.st
             /\ last' = L(IF checked THEN "cast" ELSE "static_cast",
                          "nullptr", "none", T, 0, form, r.out)
    /\ UNCHANGED <<wr, heap, obj, ptr, qtr, comp, ceval, iface>>

\* x == y
Equal(x, y) ==
    /\ Ready /\ Alive(x) /\ Alive(y)
    /\ _equality(iface[x]) /\ _equality(iface[y])
    /\ \E nd \in BOOLEAN :
         LET r == _equal_to(Mem(nd), x, y, nd)
         IN  /\ status' = r.st
             /\ last' = L("equal", x, y, "void", 0, "none", r.out)
    /\ UNCHANGED <<wr, heap, obj, ptr, qtr, comp, ceval, iface>>

\* programs over the owning wrappers
Next ==
    \/ \E w \in Wrappers : Construct(w)
    \/ \E w \in Wrappers, T \in Types, v \in Values : ConstructValue(w, T, v)
    \/ \E w \in Wrappers, T \in Types, v \in Values : AssignValue(w, T, v)
    \/ \E w \in Wrappers : Reset(w)
    \/ \E w \in Wrappers : Destroy(w)
    \/ \E w, src \in Wrappers : CopyConstruct(w, src)
    \/ \E w, src \in Wrappers : MoveConstruct(w, src)
    \/ \E w, src \in Wrappers : CopyAssign(w, src)
    \/ \E w, src \in Wrappers : MoveAssign(w, src)
    \/ \E w, src \in Wrappers : Swap(w, src)
    \/ \E w, src \in Wrappers, byMove \in BOOLEAN : ConvertConstruct(w, src, byMove)
    \/ \E w, src \in Wrappers, byMove \in BOOLEAN : ConvertAssign(w, src, byMove)
    \/ \E w \in Wrappers, v \in Values : Mutate(w, v)
    \/ \E w \in Wrappers, T \in Types, form \in CastForms : Cast(w, T, form)
    \/ \E x, y \in Wrappers : Equal(x, y)
    \/ Return

Spec == Init /\ [][Next]_vars

\* programs over an owner, a wrapper of the converted-to interface and the
\* pointer wrapper p
PtrWrappers == {"a", "c"}

NextPtr ==
    \/ \E w \in PtrWrappers : Construct(w)
    \/ \E w \in PtrWrappers, T \in Types, v \in Values : ConstructValue(w, T, v)
    \/ \E w \in PtrWrappers : Reset(w)
    \/ \E w \in PtrWrappers : Destroy(w)
    \/ \E w \in PtrWrappers : AddressOf(w)
    \/ PtrToObject
    \/ PtrNull
    \/ \E w \in PtrWrappers : RefConstruct(w)
    \/ \E w \in PtrWrappers : RefAssign(w)
    \/ \E w \in PtrWrappers, v \in Values : Mutate(w, v)
    \/ \E v \in Values : MutateViaPtr(v)
    \/ \E T \in Types, form \in CastForms : CastPtr(T, form)
    \/ Return

SpecPtr == Init /\ [][NextPtr]_vars

\* programs that cast owners, the pointer wrapper p and null pointers, with
\* the checked and with the unchecked cast
NextCast ==
    \/ \E w \in PtrWrappers : Construct(w)
    \/ \E w \in PtrWrappers, T \in Types, v \in Values : ConstructValue(w, T, v)
    \/ \E w \in PtrWrappers : Reset(w)
    \/ \E w \in PtrWrappers : Destroy(w)
    \/ \E w \in PtrWrappers : AddressOf(w)
    \/ PtrNull
    \/ \E T \in Types, form \in CastForms : CastPtr(T, form)
    \/ \E w \in PtrWrappers, T \in Types, form \in CastForms : Cast(w, T, form)
    \/ \E w \in PtrWrappers, T \in Types, form \in CastForms : StaticCast(w, T, form)
    \/ \E T \in Types, form \in CastForms : StaticCastPtr(T, form)
    \/ \E T \in Types, form \in {"ptr", "cptr"}, checked \in BOOLEAN :
          CastNull(T, form, checked)
    \/ Return

SpecCast == Init /\ [][NextCast]_vars

\* programs that emplace payloads of every kind, the class with the throwing
\* move included, into a wrapper of a movable and of a non-movable interface
NextStore ==
    \/ \E w \in PtrWrappers : Construct(w)
    \/ \E w \in PtrWrappers, T \in PayloadTypes, v \in Values : ConstructValue(w, T, v)
    \/ \E w \in PtrWrappers, T \in PayloadTypes, v \in Values : AssignValue(w, T, v)
    \/ \E w \in PtrWrappers : Reset(w)
    \/ \E w \in PtrWrappers : Destroy(w)
    \/ Return

SpecStore == Init /\ [][NextStore]_vars

\* programs over an owner and two pointer wrappers
NextAlias ==
    \/ \E T \in Types, v \in Values : ConstructValue("a", T, v)
    \/ \E T \in Types, v \in Values : AssignValue("a", T, v)
    \/ Reset("a")
    \/ Destroy("a")
    \/ AddressOf("a")
    \/ PtrToObject
    \/ PtrNull
    \/ PtrConstruct
    \/ PtrAssign
    \/ \E form \in {"direct", "deref"} : PtrAssignSelf(form)
    \/ PtrSwap
    \/ PtrDestroy
    \/ \E v \in Values : MutateViaPtr(v)
    \/ Return

SpecAlias == Init /\ [][NextAlias]_vars

(***************************************************************************)
(* The composition algebra over every extension graph                      *)
(***************************************************************************)
\* the interfaces of a graph are numbered so that every interface extends
\* interfaces of a lower number only (the graph is acyclic)
MaxIfaces == 4

RECURSIVE ListsOver(_)
\* the extension lists over a set of interfaces
ListsOver(S) ==
    {<<>>} \cup UNION {{<<x>> \o l : l \in ListsOver(S \ {x})} : x \in S}

RECURSIVE Graphs(_)
\* the extension graphs of n interfaces
Graphs(n) ==
    IF n = 0 THEN {<<>>}
    ELSE {Append(G, l) : G \in Graphs(n - 1), l \in ListsOver(1 .. n - 1)}

\* the graphs whose interfaces are declared with every choice of BufferSize
\* have MaxLayers interfaces
MaxLayers == 3

\* the BufferSize arguments an interface is declared with: less than a
\* word, one word, the default, and five words
SizeChoices == {0, iroot_buffer_size, default_buffer_size, 5}

\* every interface of graph G is declared with the default BufferSize
DefaultSizes(G) == [i \in 1 .. Len(G) |-> default_buffer_size]

\* the interfaces that the extension list bases satisfies, directly or
\* transitively
Satisfied(G, bases) == SeqToSet(_mcall(G, bases, <<>>))

\* the extension list with X added after the first k entries
InsertAt(bases, k, X) ==
    SubSeq(bases, 1, k) \o <<X>> \o SubSeq(bases, k + 1, Len(bases))

InitCompose ==
    /\ iface = CHOOSE c \in Configs : c.p = "ibaz"
    /\ wr = [s \in Slots |-> Dead]
    /\ heap = [b \in Blocks |-> Unalloc]
    /\ obj = [type |-> "str", val |-> 1]
    /\ ptr = NullPtr
    /\ qtr = DeadPtr
    /\ ceval = NoConsteval
    /\ status = "run"
    /\ last = NoCall
    /\ \E G \in Graphs(MaxIfaces) :
          comp = Composition(G, "none", 0, <<>>, <<>>, <<>>, 0)

InitSizes ==
    /\ iface = CHOOSE c \in Configs : c.p = "ibaz"
    /\ wr = [s \in Slots |-> Dead]
    /\ heap = [b \in Blocks |-> Unalloc]
    /\ obj = [type |-> "str", val |-> 1]
    /\ ptr = NullPtr
    /\ qtr = DeadPtr
    /\ ceval = NoConsteval
    /\ status = "run"
    /\ last = NoCall
    /\ \E G \in Graphs(MaxLayers) :
          comp = Composition(G, "none", 0, <<>>, <<>>, <<>>, 0)

\* iabstract<I> is instantiated, the interfaces declaring the given
\* BufferSize arguments
Compose(I, sizes) ==
    /\ comp.op = "none"
    /\ LET chain == iabstract_of(comp.graph, I, comp.graph[I])
       IN  comp' = Composition(comp.graph, "compose", I, comp.graph[I], sizes,
                               chain, _buffer_size_of(sizes, chain))
    /\ UNCHANGED <<wr, heap, obj, ptr, qtr, ceval, iface, status, last>>

\* iabstract<I, extends<...>> is instantiated with an extension list that
\* names once more, after its first k entries, an interface X that the list
\* of I satisfies already
Extend(I, X, k) ==
    /\ comp.op = "none"
    /\ X \in Satisfied(comp.graph, comp.graph[I])
    /\ k <= Len(comp.graph[I])
    /\ LET bases == InsertAt(comp.graph[I], k, X)
           sizes == DefaultSizes(comp.graph)
           chain == iabstract_of(comp.graph, I, bases)
       IN  comp' = Composition(comp.graph, "extend", I, bases, sizes,
                               chain, _buffer_size_of(sizes, chain))
    /\ UNCHANGED <<wr, heap, obj, ptr, qtr, ceval, iface, status, last>>

\* every interface of every extension graph is composed, and composed again
\* with an extension list that repeats what it satisfies
NextCompose ==
    \/ \E I \in 1 .. MaxIfaces : Compose(I, DefaultSizes(comp.graph))
    \/ \E I \in 1 .. MaxIfaces, X \in 1 .. MaxIfaces, k \in 0 .. MaxIfaces :
          Extend(I, X, k)

SpecCompose == InitCompose /\ [][NextCompose]_vars

\* every interface of every extension graph is composed with every choice
\* of BufferSize arguments
NextSizes ==
    \E I \in 1 .. MaxLayers, sizes \in [1 .. MaxLayers -> SizeChoices] :
       Compose(I, sizes)

SpecSizes == InitSizes /\ [][NextSizes]_vars

(***************************************************************************)
(* The same program run at runtime and under constant evaluation           *)
(***************************************************************************)
\* the memory a handler starts from under constant evaluation
MemConsteval(nd) ==
    [wr |-> ceval.wr, heap |-> ceval.heap, obj |-> obj,
     ifc |-> [s \in Slots |-> IF s \in Wrappers THEN iface[s] ELSE "none"],
     status |-> "run", nd |-> nd, consteval |-> TRUE, lost |-> 0, throws |-> FALSE]

\* both evaluations are about to run the next statement
ReadyBoth == Ready /\ ceval.status = "run"

\* the handler ran in both evaluations, M at runtime and C under constant
\* evaluation
CommitBoth(M, C, l) ==
    /\ M.status # "bound" /\ C.status # "bound"
    /\ wr' = M.wr
    /\ heap' = M.heap
    /\ obj' = M.obj
    /\ status' = M.status
    /\ ceval' = [wr |-> C.wr, heap |-> C.heap, status |-> C.status]
    /\ last' = l
    /\ UNCHANGED <<iface, ptr, qtr, comp>>

\* any::any()
ConstructBoth(w) ==
    /\ ReadyBoth /\ ~Alive(w)
    /\ CommitBoth(ctor_default(Mem(TRUE), w, iface[w]),
                  ctor_default(MemConsteval(TRUE), w, iface[w]),
                  L("construct", w, "none", "void", 0, "none", NoOut))

\* any::any(Value)
ConstructValueBoth(w, T, v) ==
    /\ ReadyBoth /\ ~Alive(w)
    /\ CommitBoth(_emplace_(ctor_default(Mem(TRUE), w, iface[w]), w, T, v),
                  _emplace_(ctor_default(MemConsteval(TRUE), w, iface[w]), w, T, v),
                  L("construct_value", w, "none", T, v, "none", NoOut))

\* any::operator=(Value)
AssignValueBoth(w, T, v) ==
    /\ ReadyBoth /\ Alive(w)
    /\ CommitBoth(_emplace_(_reset_(Mem(TRUE), w), w, T, v),
                  _emplace_(_reset_(MemConsteval(TRUE), w), w, T, v),
                  L("assign_value", w, "none", T, v, "none", NoOut))

\* any::reset(w)
ResetBoth(w) ==
    /\ ReadyBoth /\ Alive(w)
    /\ CommitBoth(_reset_(Mem(TRUE), w), _reset_(MemConsteval(TRUE), w),
                  L("reset", w, "none", "void", 0, "none", NoOut))

\* any::~any()
DestroyBoth(w) ==
    /\ ReadyBoth /\ Alive(w)
    /\ CommitBoth(dtor(Mem(TRUE), w), dtor(MemConsteval(TRUE), w),
                  L("destroy", w, "none", "void", 0, "none", NoOut))

\* any::any(any const &)
CopyConstructBoth(w, src) ==
    /\ ReadyBoth /\ ~Alive(w) /\ Alive(src)
    /\ SameInterface(w, src) /\ _copyable(iface[w])
    /\ CommitBoth(copy_ctor(Mem(TRUE), w, src), copy_ctor(MemConsteval(TRUE), w, src),
                  L("copy_construct", w, src, "void", 0, "none", NoOut))

\* any::any(any &&)
MoveConstructBoth(w, src) ==
    /\ ReadyBoth /\ ~Alive(w) /\ Alive(src)
    /\ SameInterface(w, src) /\ _movable(iface[w])
    /\ \E nd \in BOOLEAN :
         CommitBoth(move_ctor(Mem(nd), w, src, "t1"),
                    move_ctor(MemConsteval(nd), w, src, "t1"),
                    L("move_construct", w, src, "void", 0, "none", NoOut))

\* any::operator=(any const &)
CopyAssignBoth(w, src) ==
    /\ ReadyBoth /\ Alive(w) /\ Alive(src)
    /\ SameInterface(w, src) /\ _copyable(iface[w])
    /\ \E nd \in BOOLEAN :
         CommitBoth(copy_assign(Mem(nd), w, src, "t1", "t2"),
                    copy_assign(MemConsteval(nd), w, src, "t1", "t2"),
                    L("copy_assign", w, src, "void", 0, "none", NoOut))

\* any::operator=(any &&)
MoveAssignBoth(w, src) ==
    /\ ReadyBoth /\ Alive(w) /\ Alive(src)
    /\ SameInterface(w, src) /\ _movable(iface[w])
    /\ \E nd \in BOOLEAN :
         CommitBoth(move_assign(Mem(nd), w, src, "t1"),
                    move_assign(MemConsteval(nd), w, src, "t1"),
                    L("move_assign", w, src, "void", 0, "none", NoOut))

\* swap(any &, any &)
SwapBoth(w, src) ==
    /\ ReadyBoth /\ Alive(w) /\ Alive(src)
    /\ SameInterface(w, src) /\ _movable(iface[w])
    /\ \E nd \in BOOLEAN :
         CommitBoth(swap(Mem(nd), w, src, "t1"),
                    swap(MemConsteval(nd), w, src, "t1"),
                    L("swap", w, src, "void", 0, "none", NoOut))

\* any::any(Interface<Other> other)
ConvertConstructBoth(w, src, byMove) ==
    /\ ReadyBoth /\ ~Alive(w) /\ Alive(src)
    /\ Convertible(w, src) /\ (byMove \/ _copyable(iface[src]))
    /\ \E nd \in BOOLEAN :
         CommitBoth(convert_ctor(Mem(nd), w, src, byMove),
                    convert_ctor(MemConsteval(nd), w, src, byMove),
                    L("convert_construct", w, src, "void", 0, Way(byMove), NoOut))

\* any::operator=(Interface<Other> other)
ConvertAssignBoth(w, src, byMove) ==
    /\ ReadyBoth /\ Alive(w) /\ Alive(src)
    /\ Convertible(w, src) /\ (byMove \/ _copyable(iface[src]))
    /\ \E nd \in BOOLEAN :
         CommitBoth(convert_assign(Mem(nd), w, src, byMove),
                    convert_assign(MemConsteval(nd), w, src, byMove),
                    L("convert_assign", w, src, "void", 0, Way(byMove), NoOut))

NextBoth ==
    \/ \E w \in Wrappers : ConstructBoth(w)
    \/ \E w \in Wrappers, T \in Types, v \in Values : ConstructValueBoth(w, T, v)
    \/ \E w \in Wrappers, T \in Types, v \in Values : AssignValueBoth(w, T, v)
    \/ \E w \in Wrappers : ResetBoth(w)
    \/ \E w \in Wrappers : DestroyBoth(w)
    \/ \E w, src \in Wrappers : CopyConstructBoth(w, src)
    \/ \E w, src \in Wrappers : MoveConstructBoth(w, src)
    \/ \E w, src \in Wrappers : CopyAssignBoth(w, src)
    \/ \E w, src \in Wrappers : MoveAssignBoth(w, src)
    \/ \E w, src \in Wrappers : SwapBoth(w, src)
    \/ \E w, src \in Wrappers, byMove \in BOOLEAN : ConvertConstructBoth(w, src, byMove)
    \/ \E w, src \in Wrappers, byMove \in BOOLEAN : ConvertAssignBoth(w, src, byMove)
    \/ Return

SpecBoth == Init /\ [][NextBoth]_vars

(***************************************************************************)
(* Copy-assignment with a payload whose copy can raise                     *)
(***************************************************************************)
\* any::operator=(any const &); throws tells that copying the payload raises
CopyAssignThrows(w, src, throws) ==
    /\ Ready /\ Alive(w) /\ Alive(src)
    /\ SameInterface(w, src) /\ _copyable(iface[w])
    /\ \E nd \in BOOLEAN :
         Commit(copy_assign([Mem(nd) EXCEPT !.throws = throws], w, src, "t1", "t2"),
                L("copy_assign", w, src, "void", 0,
                  IF throws THEN "throws" ELSE "none", NoOut))
    /\ UNCHANGED ptr

\* the exception a statement raised is caught by the program, which goes on
Catch ==
    /\ status = "throw"
    /\ status' = "run"
    /\ last' = NoCall
    /\ UNCHANGED <<wr, heap, obj, ptr, qtr, comp, ceval, iface>>

NextThrow ==
    \/ \E w \in Wrappers : Construct(w)
    \/ \E w \in Wrappers, T \in Types, v \in Values : ConstructValue(w, T, v)
    \/ \E w \in Wrappers : Reset(w)
    \/ \E w \in Wrappers : Destroy(w)
    \/ \E w, src \in Wrappers, throws \in BOOLEAN : CopyAssignThrows(w, src, throws)
    \/ Catch
    \/ Return

SpecThrow == Init /\ [][NextThrow]_vars

(***************************************************************************)
(* Properties                                                              *)
(***************************************************************************)
\* the memory before and after a step
MemNow == Mem(TRUE)
MemNext == [wr |-> wr', heap |-> heap', obj |-> obj',
            ifc |-> [s \in Slots |-> IF s \in Wrappers THEN iface[s] ELSE "none"],
            status |-> "run", nd |-> TRUE, consteval |-> FALSE, lost |-> 0, throws |-> FALSE]

\* what can be observed of an owning wrapper: emptiness, type and value
Observed(M, w) == [empty |-> _empty_(M, w), type |-> _type_(M, w), val |-> Payload(M, w).val]

\* the living wrappers that hold a tagged pointer to block b
Holders(b) == {w \in Wrappers : wr[w].alive /\ wr[w].tag = "heap" /\ wr[w].blk = b}

\* C1: over any sequence of operations on owning wrappers every heap block
\* is freed exactly once: no block is freed twice, no living wrapper refers
\* to a block that has been freed, and every block that has not been freed
\* is held by exactly one living wrapper (none is leaked)
C1_FreedExactlyOnce ==
    /\ \A b \in Blocks : heap[b].nfree <= 1
    /\ status = "run" =>
         /\ \A w \in Wrappers : wr[w].alive => ~Dangling(MemNow, w)
         /\ \A b \in Blocks : heap[b].st = "live" => Cardinality(Holders(b)) = 1

\* C2: constructing or assigning an owning wrapper from the dereference of
\* a pointer wrapper copies: the referenced payload keeps its value, and the
\* new wrapper owns a payload of the same type and value at another address
C2_DefensiveCopy ==
    [][(/\ last'.op \in {"ref_construct", "ref_assign"}
        /\ status' = "run"
        /\ ~ref_empty_(ptr)
        /\ ref_data_(MemNow, ptr) # _data_(MemNow, last'.w))
       => /\ At(MemNext, ptr.addr).val = At(MemNow, ptr.addr).val
          /\ _type_(MemNext, last'.w) = ref_type_(MemNow, ptr)
          /\ Payload(MemNext, last'.w).val = At(MemNow, ptr.addr).val
          /\ _data_(MemNext, last'.w) # ptr.addr]_vars


\* the wrapper is alive and what it holds has not been freed
Usable(w) == wr[w].alive /\ ~Dangling(MemNow, w)

PointerForms == {"ptr", "cptr"}

\* what a failed checked cast gives: null from the pointer forms, bad-cast
\* from the reference forms
CastFailure(form) == IF form \in PointerForms THEN NullAddr ELSE BadCast

\* C3: round trip.  Right after a value v of type T is wrapped into an
\* owning wrapper (by construction or by assignment) the wrapper holds v as
\* a T, every form of the checked cast to T gives the address of a payload
\* equal to v, and the checked cast to any other type fails; and whenever a
\* checked cast has run on a wrapper, it gave the address of the payload if
\* the wrapper holds the type asked for, and failed otherwise
C3_RoundTrip ==
    /\ (last.op \in {"construct_value", "assign_value"} /\ status = "run") =>
         /\ _type_(MemNow, last.w) = last.type
         /\ Payload(MemNow, last.w).val = last.val
         /\ \A T \in Types, form \in CastForms, nd \in BOOLEAN :
              LET r == any_cast(value_view(MemNow, last.w), T, form, nd)
              IN  IF T = last.type
                  THEN /\ r = Ok(_data_(MemNow, last.w))
                       /\ At(MemNow, r.out).type = T
                       /\ At(MemNow, r.out).val = last.val
                  ELSE r = Ok(CastFailure(form))
    /\ (last.op = "cast" /\ last.w \in Wrappers /\ Usable(last.w)) =>
         /\ status = "run"
         /\ IF last.type = _type_(MemNow, last.w)
            THEN /\ last.out = _data_(MemNow, last.w)
                 /\ At(MemNow, last.out) = Payload(MemNow, last.w)
            ELSE last.out = CastFailure(last.form)

\* a checked cast has given the address of a heap-held string
C3_Witness ==
    /\ last.op = "cast" /\ status = "run" /\ last.w \in Wrappers
    /\ last.type = "str" /\ last.out.k = "heap"
    /\ last.out = _data_(MemNow, last.w)
    /\ At(MemNow, last.out).val = MaxVal

\* C4: a checked cast to a type other than the one the wrapper holds gives
\* null in the pointer forms and bad-cast in the reference forms, and leaves
\* the emptiness, the type and the payload of the wrapper, and the whole
\* memory, as they were
C4_MismatchedCast ==
    [][(/\ last'.op = "cast" /\ last'.w \in Wrappers
        /\ Usable(last'.w)
        /\ last'.type # _type_(MemNow, last'.w))
       => /\ status' = "run"
          /\ last'.out = CastFailure(last'.form)
          /\ Observed(MemNext, last'.w) = Observed(MemNow, last'.w)
          /\ _data_(MemNext, last'.w) = _data_(MemNow, last'.w)
          /\ wr' = wr /\ heap' = heap]_vars

\* a reference form of the cast has raised bad-cast on a wrapper that holds
\* a payload of another type
C4_Witness ==
    /\ last.op = "cast" /\ status = "run" /\ last.w \in Wrappers
    /\ last.out = BadCast /\ last.form = "rref"
    /\ ~_empty_(MemNow, last.w)
    /\ _type_(MemNow, last.w) # last.type

\* C5: for two wrappers with the equality capability, x == y is true
\* exactly when both are empty, or both hold the same concrete type and equal
\* payloads; different types are unequal and an empty wrapper is unequal to
\* a non-empty one
C5_Equality ==
    (last.op = "equal" /\ Usable(last.w) /\ Usable(last.src)) =>
        LET x == Observed(MemNow, last.w)
            y == Observed(MemNow, last.src)
        IN  /\ status = "run"
            /\ last.out = Bool(\/ x.empty /\ y.empty
                               \/ /\ ~x.empty /\ ~y.empty
                                  /\ x.type = y.type /\ x.val = y.val)

\* two distinct wrappers holding equal heap-held strings have compared equal
C5_Witness ==
    /\ last.op = "equal" /\ status = "run" /\ last.w # last.src
    /\ last.out = Bool(TRUE)
    /\ _type_(MemNow, last.w) = "str"
    /\ _data_(MemNow, last.w).k = "heap"
    /\ _data_(MemNow, last.w) # _data_(MemNow, last.src)

\* C6: a wrapper that has been default-constructed or reset is empty, its
\* type is the "no type" sentinel and its address is null; resetting an
\* empty wrapper changes nothing and frees nothing
C6_EmptyAfterReset ==
    [][(last'.op \in {"construct", "reset"} /\ status' = "run")
       => /\ _empty_(MemNext, last'.w)
          /\ _type_(MemNext, last'.w) = "void"
          /\ _data_(MemNext, last'.w) = NullAddr
          /\ (last'.op = "reset" /\ _empty_(MemNow, last'.w))
                => wr' = wr /\ heap' = heap]_vars

\* a reset has freed the block of a heap-held payload and left the wrapper
\* empty
C6_Witness ==
    /\ last.op = "reset" /\ status = "run"
    /\ _empty_(MemNow, last.w)
    /\ \E b \in Blocks : heap[b].st = "freed"
    /\ \A b \in Blocks : heap[b].st # "live"


\* the owning wrappers whose payload the pointer wrapper p refers to
Owners == {w \in Wrappers : wr[w].alive /\ ~_empty_(MemNow, w)
                              /\ _data_(MemNow, w) = ref_data_(MemNow, ptr)}

\* C7: a pointer wrapper taken from the address of a non-empty owning
\* wrapper refers to the payload of the owner: its address is the address
\* of the owner, a checked cast through the pointer wrapper to the type the
\* owner holds gives the address a checked cast on the owner gives, and a
\* value written through the pointer wrapper is the value the owner holds
C7_PointerAliasesOwner ==
    /\ (last.op = "addressof" /\ status = "run" /\ ~_empty_(MemNow, last.src)) =>
          ref_data_(MemNow, ptr) = _data_(MemNow, last.src)
    /\ \A w \in Owners :
          /\ (last.op = "cast" /\ last.w = "p" /\ last.form \in PointerForms
              /\ last.type = _type_(MemNow, w)) =>
                /\ status = "run"
                /\ Ok(last.out) = any_cast_ptr(value_view(MemNow, w), last.type, TRUE)
          /\ last.op = "mutate_via_ptr" =>
                /\ status = "run"
                /\ Payload(MemNow, w).val = last.val

\* C8: converting a wrapper into a wrapper of another interface (by
\* construction or by assignment) preserves the concrete value and its type;
\* the payload is held in place if its model fits the buffer of the
\* destination and on the heap otherwise, and it can be used; a wrapper
\* converted from a copy of the source compares equal to the source
C8_ConversionPreserves ==
    [][(/\ last'.op \in {"convert_construct", "convert_assign"}
        /\ Usable(last'.src) /\ ~_empty_(MemNow, last'.src))
       => LET src == Payload(MemNow, last'.src)
              w   == last'.w
          IN  /\ status' = "run"
              /\ ~Dangling(MemNext, w)
              /\ _type_(MemNext, w) = src.type
              /\ Payload(MemNext, w).val = src.val
              /\ _in_situ_(MemNext, w)
                   = _is_small(iface[w], src.type, _buffer_size(iface[w]))
              /\ (/\ last'.form = "copy"
                  /\ _equality(iface[w]) /\ _equality(iface[last'.src]))
                   => \A nd \in BOOLEAN :
                         /\ _equal_to(MemNext, w, last'.src, nd) = Ok(Bool(TRUE))
                         /\ _equal_to(MemNext, last'.src, w, nd) = Ok(Bool(TRUE))]_vars

\* C9: copy-construction clones the payload into a fresh buffer.  The copy
\* has the emptiness, the type and the payload value of the source (the copy
\* of an empty wrapper is empty), a non-empty copy lives at another address,
\* in a block that was not in use if it is heap-held, and the source and
\* every block in use are unchanged; and a later mutation, reset or
\* destruction of a wrapper changes no other wrapper
C9_CopyConstructClones ==
    [][/\ (last'.op = "copy_construct" /\ status' = "run") =>
            LET w   == last'.w
                src == last'.src
            IN  /\ Observed(MemNext, w) = Observed(MemNow, src)
                /\ ~_empty_(MemNow, src) =>
                      /\ _data_(MemNext, w) # _data_(MemNext, src)
                      /\ wr'[w].tag = "heap" => heap[wr'[w].blk].st = "unalloc"
                /\ \A x \in Wrappers \ {w} : wr'[x] = wr[x]
                /\ \A b \in Blocks : heap[b].st # "unalloc" => heap'[b] = heap[b]
       /\ (last'.op \in {"mutate", "reset", "destroy"} /\ status' = "run") =>
            \A x \in Wrappers \ {last'.w} :
                Usable(x) => /\ wr'[x] = wr[x]
                             /\ Observed(MemNext, x) = Observed(MemNow, x)]_vars

\* a heap-held string has been copy-constructed into a block of its own
C9_Witness ==
    /\ last.op = "copy_construct" /\ status = "run"
    /\ wr[last.w].tag = "heap" /\ wr[last.src].tag = "heap"
    /\ wr[last.w].blk # wr[last.src].blk
    /\ Observed(MemNow, last.w) = Observed(MemNow, last.src)
    /\ Payload(MemNow, last.w).val = MaxVal

\* C10: after a move-construction or a move-assignment from another wrapper
\* the source wrapper holds no payload and reports empty
C10_MoveEmptiesSource ==
    (/\ last.op \in {"move_construct", "move_assign"}
     /\ status = "run" /\ last.w # last.src)
    => _empty_(MemNow, last.src)

\* the payload type fits the buffer of the wrapper and its move cannot throw
FitsInPlace(w, T) == ModelWords(T) <= _buffer_size(iface[w]) /\ NothrowMove[T]

\* no block is handed out by the step
NoAllocation == \A b \in Blocks : heap[b].st = "unalloc" => heap'[b].st = "unalloc"

\* C11: emplacing a payload whose model fits the buffer of the wrapper and
\* whose move cannot throw allocates no heap block and stores the payload in
\* place; a swap of two wrappers that both hold such in-place payloads
\* allocates no heap block and does not fail
C11_InPlaceNoAllocation ==
    [][/\ (/\ last'.op \in {"construct_value", "assign_value"}
           /\ FitsInPlace(last'.w, last'.type))
          => /\ NoAllocation
             /\ status' = "run" => _in_situ_(MemNext, last'.w)
       /\ (/\ last'.op = "swap"
           /\ _in_situ_(MemNow, last'.w) /\ _in_situ_(MemNow, last'.src)
           /\ FitsInPlace(last'.w, _type_(MemNow, last'.w))
           /\ FitsInPlace(last'.src, _type_(MemNow, last'.src)))
          => /\ status' = "run"
             /\ NoAllocation
             /\ heap' = heap
             /\ _in_situ_(MemNext, last'.w) /\ _in_situ_(MemNext, last'.src)]_vars

\* two wrappers that held an in-place string and an in-place int have been
\* swapped, and no block has ever been handed out
C11_Witness ==
    /\ last.op = "swap" /\ status = "run" /\ last.w # last.src
    /\ _in_situ_(MemNow, last.w) /\ _in_situ_(MemNow, last.src)
    /\ _type_(MemNow, last.w) = "int" /\ _type_(MemNow, last.src) = "str"
    /\ \A b \in Blocks : heap[b].st = "unalloc"

\* C12: when a value is emplaced, its model is stored in place if and only
\* if the model is no larger than the buffer and the interface is not
\* movable or the move constructor of the model cannot throw; in every other
\* case exactly one heap block is allocated, it holds the model, and the
\* wrapper stores a tagged pointer to it
C12_StorageSelection ==
    [][(last'.op \in {"construct_value", "assign_value"}) =>
         LET w == last'.w
             T == last'.type
             inPlace == /\ ModelWords(T) <= _buffer_size(iface[w])
                        /\ (~_movable(iface[w]) \/ NothrowMove[T])
             fresh == {b \in Blocks : heap[b].st = "unalloc" /\ heap'[b].st # "unalloc"}
         IN  /\ status' = "run"
             /\ _in_situ_(MemNext, w) <=> inPlace
             /\ Payload(MemNext, w) = PL(T, last'.val, iface[w])
             /\ IF inPlace
                THEN fresh = {}
                ELSE /\ Cardinality(fresh) = 1
                     /\ wr'[w] = HeapPtr(CHOOSE b \in fresh : TRUE)
                     /\ \A b \in fresh : heap'[b] = Live(PL(T, last'.val, iface[w]))]_vars

\* a value whose model fits the buffer, but whose move constructor can
\* throw, has been emplaced on the heap in a wrapper of a movable interface
C12_Witness ==
    /\ last.op \in {"construct_value", "assign_value"} /\ status = "run"
    /\ last.type = "thrower"
    /\ ModelWords(last.type) <= _buffer_size(iface[last.w])
    /\ _movable(iface[last.w])
    /\ wr[last.w].tag = "heap" /\ heap[wr[last.w].blk].st = "live"

\* a value whose move constructor can throw has been emplaced in place in a
\* wrapper of an interface that is not movable
C12_WitnessNotMovable ==
    /\ last.op \in {"construct_value", "assign_value"} /\ status = "run"
    /\ last.type = "thrower" /\ ~_movable(iface[last.w])
    /\ _in_situ_(MemNow, last.w)

\* the operations that replace the payload of an owning wrapper
Replacing == {"assign_value", "convert_assign", "ref_assign", "move_assign"}

\* what the replacing call last' installs in its wrapper, seen before the
\* call: what the source holds, or the value that is passed
Incoming ==
    IF last'.op = "assign_value"
    THEN [empty |-> FALSE, type |-> last'.type, val |-> last'.val]
    ELSE IF last'.op = "ref_assign"
    THEN [empty |-> ref_empty_(ptr), type |-> ref_type_(MemNow, ptr),
          val |-> At(MemNow, ref_data_(MemNow, ptr)).val]
    ELSE Observed(MemNow, last'.src)

\* the arguments of the call last' are wrappers that can be used, and the
\* call is not a self-assignment
ReplacingCall ==
    /\ last'.op \in Replacing
    /\ Usable(last'.w)
    /\ last'.op \in {"convert_assign", "move_assign"} =>
          Usable(last'.src) /\ last'.src # last'.w
    /\ last'.op = "ref_assign" =>
          PtrValid(MemNow, ptr) /\ ref_data_(MemNow, ptr) # _data_(MemNow, last'.w)

\* C13: every assignment that replaces the payload of an owning wrapper
\* (from a value, from an erased value, from an erased reference, by move)
\* destroys the prior payload and leaves the wrapper holding exactly the new
\* payload: a heap-held prior payload is deleted once and the wrapper no
\* longer refers to it, the wrapper holds what came in and can be used, and
\* the only block that has come into use is the one the wrapper holds;
\* destroying a wrapper deletes its payload and leaves every other block alone
C13_ReplaceDestroysPrior ==
    [][/\ ReplacingCall =>
            LET w == last'.w
            IN  /\ status' = "run"
                /\ wr[w].tag = "heap" =>
                      /\ heap'[wr[w].blk] = Freed(1)
                      /\ ~(wr'[w].tag = "heap" /\ wr'[w].blk = wr[w].blk)
                /\ ~Dangling(MemNext, w)
                /\ Observed(MemNext, w) = Incoming
                /\ \A b \in Blocks :
                      (heap'[b].st = "live" /\ heap[b].st # "live")
                         => wr'[w].tag = "heap" /\ wr'[w].blk = b
       /\ (last'.op = "destroy" /\ Usable(last'.w)) =>
            LET w == last'.w
            IN  /\ status' = "run"
                /\ wr'[w] = Dead
                /\ \A b \in Blocks :
                      heap'[b] = IF wr[w].tag = "heap" /\ wr[w].blk = b
                                 THEN Freed(1) ELSE heap[b]]_vars

\* the operations on pointer wrappers
PointerOps == {"addressof", "ptr_to_object", "ptr_null", "ptr_construct",
               "ptr_assign", "ptr_swap", "ptr_destroy"}

\* the pointer wrapper refers to a payload that is alive
RefersToPayload(M, r) == r.kind \in {"direct", "indirect"} /\ PtrValid(M, r)

\* C14: pointer wrappers own nothing.  Constructing a pointer wrapper (from
\* the address of an owning wrapper, from the address of an object, from
\* another pointer wrapper by copy or by conversion), assigning to it
\* (another pointer wrapper, or null), swapping two of them and destroying
\* one leaves every owning wrapper, every heap block and the concrete object
\* exactly as they were: the payloads the pointer wrappers referred to are
\* alive and unchanged, and the emptiness, the type, the address and the
\* storage of every owning wrapper are the same; the operation does not fail
\* unless it is handed a pointer wrapper whose payload is gone
C14_PointersOwnNothing ==
    [][last'.op \in PointerOps =>
         /\ PtrValid(MemNow, ptr) => status' = "run"
         /\ wr' = wr /\ heap' = heap /\ obj' = obj
         /\ \A r \in {ptr, qtr} :
               RefersToPayload(MemNow, r) =>
                  /\ AddrValid(MemNext, r.addr)
                  /\ At(MemNext, r.addr) = At(MemNow, r.addr)
         /\ \A w \in Wrappers :
               /\ Observed(MemNext, w) = Observed(MemNow, w)
               /\ _data_(MemNext, w) = _data_(MemNow, w)
               /\ _in_situ_(MemNext, w) = _in_situ_(MemNow, w)]_vars

\* two pointer wrappers have been swapped: q now refers to the heap-held
\* payload of the owner a and p to the concrete object, and both are as they
\* were
C14_Witness ==
    /\ last.op = "ptr_swap" /\ status = "run"
    /\ wr.a.tag = "heap" /\ heap[wr.a.blk].st = "live"
    /\ qtr.addr = _data_(MemNow, "a")
    /\ ptr.addr = ObjAddr
    /\ Payload(MemNow, "a").val = MaxVal

\* a pointer wrapper converted from a direct pointer wrapper of another
\* interface has been destroyed, and the owner still holds its payload
C14_WitnessConverted ==
    /\ last.op = "ptr_destroy" /\ status = "run"
    /\ iface.p # iface.q
    /\ ptr.kind = "direct" /\ ptr.addr = _data_(MemNow, "a")
    /\ ~_empty_(MemNow, "a") /\ ~Dangling(MemNow, "a")

RECURSIVE Requires(_, _)
\* the interfaces that interface I of graph G requires: itself and,
\* transitively, everything on the extension lists
Requires(G, I) ==
    {I} \cup UNION {Requires(G, G[I][j]) : j \in 1 .. Len(G[I])}

\* the interfaces that an interface I with the extension list bases requires
RequiredBy(G, I, bases) ==
    {I} \cup UNION {Requires(G, bases[j]) : j \in 1 .. Len(bases)}

\* no layer occurs twice in the chain
NoDuplicates(chain) ==
    \A i, j \in 1 .. Len(chain) : chain[i] = chain[j] => i = j

\* the BufferSize arguments where one interface declares a size of its own
\* and every other interface the default
OneDeclares(G) ==
    {[i \in 1 .. Len(G) |-> IF i = J THEN s ELSE default_buffer_size] :
        J \in 1 .. Len(G), s \in SizeChoices}

\* C15: in every acyclic extension graph, a diamond included, the composed
\* chain of an interface holds every interface it requires, directly or
\* transitively, exactly once and nothing else; and naming once more, at any
\* place of the extension list, an interface that the list satisfies already
\* leaves the set of layers and the buffer size of the chain unchanged (and
\* the chain itself when the interface is named last)
C15_EachBaseOnce ==
    /\ comp.op \in {"compose", "extend"} =>
          /\ NoDuplicates(comp.chain)
          /\ SeqToSet(comp.chain) = RequiredBy(comp.graph, comp.ifc, comp.bases)
    /\ comp.op = "extend" =>
          LET G     == comp.graph
              plain == iabstract_of(G, comp.ifc, G[comp.ifc])
          IN  /\ SeqToSet(comp.chain) = SeqToSet(plain)
              /\ Len(comp.chain) = Len(plain)
              /\ \A sizes \in OneDeclares(G) :
                    _buffer_size_of(sizes, comp.chain) = _buffer_size_of(sizes, plain)
              /\ SubSeq(comp.bases, 1, Len(G[comp.ifc])) = G[comp.ifc]
                    => comp.chain = plain

\* the diamond: interface 4 extends 2 and 3, which both extend 1
Diamond == <<<<>>, <<1>>, <<1>>, <<2, 3>>>>

\* the top of a diamond has been composed with the shared base named once
\* more in front of its extension list, and the chain holds each of the four
\* interfaces once
C15_Witness ==
    /\ comp.op = "extend"
    /\ SubSeq(comp.graph, 1, 4) = Diamond
    /\ comp.ifc = 4 /\ comp.bases = <<1, 2, 3>>
    /\ comp.chain = <<1, 2, 3, 4>>

\* where a layer sits in a chain, counted from the root (0 if it is absent)
Position(chain, X) ==
    IF X \in SeqToSet(chain) THEN CHOOSE i \in 1 .. Len(chain) : chain[i] = X ELSE 0

\* the abstract chain of interface X of graph G
ChainOf(G, X) == iabstract_of(G, X, G[X])

\* the chain of a composed interface is linear and keeps the order of the
\* extension list: the interface is the outermost layer, every layer sits
\* over all the interfaces it requires, an entry of the extension list that
\* no earlier entry requires sits over all the earlier entries, and the
\* chain of the first entry is the innermost part of the chain
LinearInListOrder ==
    LET G     == comp.graph
        bases == comp.bases
        chain == comp.chain
    IN  /\ NoDuplicates(chain)
        /\ chain[Len(chain)] = comp.ifc
        /\ \A X \in SeqToSet(chain) \ {comp.ifc} :
              \A Y \in Requires(G, X) :
                 Position(chain, Y) # 0 /\ Position(chain, Y) <= Position(chain, X)
        /\ \A k \in 1 .. Len(bases) :
              (\A j \in 1 .. k - 1 : bases[k] \notin Requires(G, bases[j]))
                 => \A j \in 1 .. k - 1 :
                       Position(chain, bases[j]) < Position(chain, bases[k])
        /\ bases # <<>> => derives(chain, ChainOf(G, bases[1]))

SetMax(S) == CHOOSE x \in S : \A y \in S : y <= x

\* the buffer capacity of interface X of graph G under the given BufferSize
\* arguments
Capacity(G, sizes, X) == _buffer_size_of(sizes, ChainOf(G, X))

\* C20: the buffer capacity of a composed chain is the largest of the sizes
\* its layers declare and of the one word of the abstract root; so the
\* capacity of an interface is at least the capacity of every interface it
\* extends, and when it declares a size larger than the capacity of each of
\* them, its capacity is the size it declares and strictly larger than
\* theirs
C20_BufferCapacity ==
    /\ _buffer_size("ifoo") < _buffer_size("ibaz")
    /\ comp.op = "compose" =>
          LET G        == comp.graph
              I        == comp.ifc
              extended == Requires(G, I) \ {I}
          IN  /\ comp.size = SetMax({iroot_buffer_size}
                                       \cup {comp.sizes[X] : X \in Requires(G, I)})
              /\ comp.size >= iroot_buffer_size
              /\ \A X \in extended : comp.size >= Capacity(G, comp.sizes, X)
              /\ (\A X \in extended : comp.sizes[I] > Capacity(G, comp.sizes, X))
                    => /\ \A X \in extended : comp.size > Capacity(G, comp.sizes, X)
                       /\ extended # {} => comp.size = comp.sizes[I]

\* an interface that declares five words and extends an interface of the
\* default size and one that declares less than a word has been composed:
\* its capacity is five words, more than the three words and the one word of
\* its bases
C20_Witness ==
    /\ comp.op = "compose" /\ comp.ifc = 3 /\ comp.bases = <<1, 2>>
    /\ comp.sizes[1] = default_buffer_size /\ comp.sizes[2] = 0 /\ comp.sizes[3] = 5
    /\ comp.size = 5
    /\ Capacity(comp.graph, comp.sizes, 1) = default_buffer_size
    /\ Capacity(comp.graph, comp.sizes, 2) = iroot_buffer_size

\* an interface that declares less than the interface it extends has been
\* composed: its capacity is the capacity of its base
C20_WitnessInherited ==
    /\ comp.op = "compose" /\ comp.ifc = 2 /\ comp.bases = <<1>>
    /\ comp.sizes[1] = 5 /\ comp.sizes[2] = 0
    /\ comp.size = 5

\* C18: equality of erased wrappers is reflexive and symmetric.  Whenever
\* x == y has been evaluated on two wrappers that can be used, y == x gives
\* the same result, also when one of them is empty and when the two have
\* different interfaces; and x == x is true
C18_EqualitySymmetric ==
    (last.op = "equal" /\ Usable(last.w) /\ Usable(last.src)) =>
        /\ status = "run"
        /\ \A nd \in BOOLEAN :
              /\ _equal_to(MemNow, last.src, last.w, nd) = Ok(last.out)
              /\ _equal_to(MemNow, last.w, last.w, nd) = Ok(Bool(TRUE))
        /\ last.w = last.src => last.out = Bool(TRUE)

\* a wrapper of the equality interface, converted from a wrapper of the
\* semiregular interface, has been compared with it and found equal
C18_Witness ==
    /\ last.op = "equal" /\ status = "run"
    /\ iface[last.w] = "iequality_comparable" /\ iface[last.src] = "isemiregular"
    /\ ~_empty_(MemNow, last.w) /\ ~_empty_(MemNow, last.src)
    /\ last.out = Bool(TRUE)

\* an empty wrapper has been compared with a wrapper of another interface
\* that holds a payload, and found unequal
C18_WitnessEmpty ==
    /\ last.op = "equal" /\ status = "run"
    /\ iface[last.w] # iface[last.src]
    /\ _empty_(MemNow, last.w) /\ ~_empty_(MemNow, last.src)
    /\ last.out = Bool(FALSE)


(***************************************************************************)
(* C19  the tagged word of a proxy                                         *)
(***************************************************************************)
LowBit(w) == wr[w].data % 2

CastResult(M, w, T, form) ==
    LET r == any_cast(value_view(M, w), T, form, M.nd)
    IN  IF r.st # "run" THEN r.st
        ELSE IF r.out = NullAddr THEN "null"
        ELSE IF r.out = BadCast THEN "bad_cast"
        ELSE "payload"

\* C17: after any sequence of wrapper operations run through the runtime
\* path and through the constant-evaluation path, both evaluations are in
\* the same condition, the same wrappers are alive, and every living wrapper
\* (the source of a move, a swap or a conversion included) reports the same
\* emptiness and the same type and gives the same result for every cast.
C17_BothPathsAgree ==
    /\ status = ceval.status
    /\ status = "run" =>
          \A w \in Wrappers :
             /\ wr[w].alive = ceval.wr[w].alive
             /\ wr[w].alive =>
                   /\ _empty_(MemNow, w) = _empty_(MemConsteval(TRUE), w)
                   /\ _type_(MemNow, w) = _type_(MemConsteval(TRUE), w)
                   /\ \A T \in Types, form \in CastForms :
                         CastResult(MemNow, w, T, form)
                            = CastResult(MemConsteval(TRUE), w, T, form)


(***************************************************************************)
(* C21  transfer of a heap-held payload on conversion                      *)
(***************************************************************************)
\* the call last' converts a wrapper that can be used and holds its payload
\* on the heap into a wrapper of an interface whose abstract type the
\* source's derives from
TransferCall ==
    /\ last'.op \in {"convert_construct", "convert_assign"}
    /\ Usable(last'.src) /\ Usable(last'.w)
    /\ wr[last'.src].tag = "heap"
    /\ derived_from(iface[last'.src], iface[last'.w])

\* C21: when an owning wrapper is constructed or assigned from a wrapper of
\* an extending interface whose payload is heap-held, the block changes
\* owner and is not shared: the call completes, the destination holds a
\* block that is in use, no other living wrapper and no parameter of the
\* call refers to that block (so the destruction of the parameter has not
\* freed it), and a source that was moved from is empty and its block is the
\* one the destination now holds.
C21_OwnershipTransferred ==
    [][TransferCall =>
          LET w == last'.w
              src == last'.src
          IN  /\ status' = "run"
              /\ wr'[w].tag = "heap"
              /\ heap'[wr'[w].blk].st = "live"
              /\ \A s \in Slots \ {w} :
                    ~(wr'[s].alive /\ wr'[s].tag = "heap" /\ wr'[s].blk = wr'[w].blk)
              /\ last'.form = "move" =>
                    /\ _empty_(MemNext, src)
                    /\ wr'[w].blk = wr[src].blk]_vars


(***************************************************************************)
(* C22  swap exchanges what two wrappers hold                              *)
(***************************************************************************)
\* C22: after swap(a, b) of two owning wrappers of the same interface that
\* can be used, the call has completed, a has the emptiness, the type and
\* the payload value that b had and b has those that a had, whether each was
\* empty, in place or heap-held; a non-empty wrapper swapped with an empty
\* one is left empty.
C22_SwapExchanges ==
    [][(last'.op = "swap" /\ Usable(last'.w) /\ Usable(last'.src)) =>
          /\ status' = "run"
          /\ Observed(MemNext, last'.w) = Observed(MemNow, last'.src)
          /\ Observed(MemNext, last'.src) = Observed(MemNow, last'.w)]_vars


(***************************************************************************)
(* C23  copy-assignment                                                    *)
(***************************************************************************)
\* C23: after the copy-assignment a = b of two owning wrappers of the same
\* copyable interface that can be used, the call has completed, a has the
\* emptiness, the type and the payload value of b, and b is as it was,
\* whether each was empty, in place or heap-held; an empty b assigned to a
\* non-empty a leaves a empty.
C23_CopyAssignCopies ==
    [][(last'.op = "copy_assign" /\ Usable(last'.w) /\ Usable(last'.src)) =>
          /\ status' = "run"
          /\ Observed(MemNext, last'.w) = Observed(MemNow, last'.src)
          /\ Observed(MemNext, last'.src) = Observed(MemNow, last'.src)
          /\ wr'[last'.src] = wr[last'.src]]_vars


(***************************************************************************)
(* C24  the precondition of move-to                                        *)
(***************************************************************************)
\* the operations of owning wrappers that invoke _move_to
MovingOps == {"swap", "move_construct", "move_assign", "copy_assign"}

\* the blocks the step hands out
Allocated == {b \in Blocks : heap[b].st = "unalloc" /\ heap'[b].st # "unalloc"}

\* C24: in every swap, move-construction, move-assignment and copy-assignment
\* of owning wrappers that can be used, each invocation of _move_to meets its
\* precondition that the model qualifies for in-place storage in the
\* destination: the assertion of the precondition does not fail, and
\* _move_to hands out no block, so that swap and the moves allocate nothing
\* and a copy-assignment allocates at most the one block of its copy of a
\* heap-held source.
C24_MoveToPrecondition ==
    [][(/\ last'.op \in MovingOps
        /\ Usable(last'.w) \/ last'.op = "move_construct"
        /\ Usable(last'.src))
       => /\ status' # "abort"
          /\ last'.op # "copy_assign" => Allocated = {}
          /\ last'.op = "copy_assign" =>
                /\ Cardinality(Allocated) <= 1
                /\ Allocated # {} => wr[last'.src].tag = "heap"]_vars


(***************************************************************************)
(* C25  every payload object is destroyed exactly once                     *)
(***************************************************************************)
\* C25: no call on owning wrappers, move-construction, move-assignment,
\* swap, copy-assignment and conversion included, writes a new payload or a
\* tagged pointer over an in-place payload object that has not been
\* destroyed; no heap-held payload is deleted twice; and every heap-held
\* payload that has not been deleted is still held by a wrapper or a
\* temporary that will delete it.
C25_DestroyedExactlyOnce ==
    /\ last.lost = 0
    /\ \A b \in Blocks :
          /\ heap[b].nfree <= 1
          /\ heap[b].st = "live" =>
                \E s \in Slots : wr[s].alive /\ wr[s].tag = "heap" /\ wr[s].blk = b


(***************************************************************************)
(* C26  self-assignment of a pointer wrapper                               *)
(***************************************************************************)
\* C26: assigning a non-null pointer wrapper to itself, directly (p = p) or
\* through its own dereference (p = &*p), leaves it non-null and referring
\* to the same payload as before.
C26_SelfAssignKeeps ==
    [][(last'.op = "ptr_assign_self" /\ ~ref_empty_(ptr)) =>
          /\ ~ref_empty_(ptr')
          /\ ref_data_(MemNext, ptr') = ref_data_(MemNow, ptr)]_vars


(***************************************************************************)
(* C27  copy-assignment when the copy fails                                *)
(***************************************************************************)
\* the copy-assignment last' has to copy a payload, and copying it raises
FailingCopy ==
    /\ last'.op = "copy_assign" /\ last'.form = "throws"
    /\ last'.w # last'.src
    /\ Usable(last'.w) /\ Usable(last'.src) /\ ~_empty_(MemNow, last'.src)
    /\ ~NothrowCopy[Payload(MemNow, last'.src).type]

\* C27: if copying the payload raises during the copy-assignment of an owning
\* wrapper, the exception leaves the assignment, the target wrapper keeps its
\* payload as it was, the source is as it was, and no block has been handed
\* out or freed, so that none is leaked; no exception leaves a
\* copy-assignment in any other case.
C27_CopyAssignStrong ==
    [][/\ FailingCopy =>
             /\ status' = "throw"
             /\ wr'[last'.w] = wr[last'.w]
             /\ wr'[last'.src] = wr[last'.src]
             /\ heap' = heap
             /\ \A t \in Temps : ~wr'[t].alive
       /\ (last'.op = "copy_assign" /\ status' = "throw") => FailingCopy]_vars

(***************************************************************************)
(* C28  conversions that are declared noexcept                             *)
(***************************************************************************)
\* the step converts, by move, a wrapper that can be used into a wrapper
\* whose buffer is at least as large: the conversion is declared noexcept
NothrowConversion ==
    /\ last'.op \in {"convert_construct", "convert_assign"}
    /\ last'.form = "move"
    /\ Usable(last'.src)
    /\ Usable(last'.w) \/ last'.op = "convert_construct"
    /\ _as_large_as(iface[last'.w], iface[last'.src])

\* C28: constructing or assigning an owning wrapper from a value-rooted
\* wrapper whose buffer is not larger than the destination's, which is the
\* case in which the conversion is declared noexcept, hands out no heap block
\* and completes; a conversion hands out a block only when the destination's
\* buffer is smaller than the source's.
C28_NothrowConversionNeverAllocates ==
    [][NothrowConversion => (status' = "run" /\ Allocated = {})]_vars

(***************************************************************************)
(* C29  casts of null pointers, null pointer wrappers and empty wrappers   *)
(***************************************************************************)
\* the call that has just been made is a checked or an unchecked cast of a
\* null pointer, of the null pointer wrapper or of an empty owning wrapper
CastOfNothing ==
    /\ last.op \in {"cast", "static_cast"}
    /\ \/ last.w = "nullptr"
       \/ last.w = "p" /\ ref_empty_(ptr)
       \/ last.w \in Wrappers /\ _empty_(MemNow, last.w)

\* C29: the checked and the unchecked cast of a null pointer, of a null
\* pointer wrapper or of an empty wrapper complete, whether assertions are
\* compiled in or not, with a null pointer in the pointer-returning forms and
\* with bad-cast in the reference-returning forms: no model is looked for
\* behind the pointer or in the wrapper.
C29_CastOfNothing ==
    CastOfNothing => (status = "run" /\ last.out = CastFailure(last.form))

\* the unchecked cast of an empty owning wrapper, in a reference-returning
\* form, has raised bad-cast
C29_Witness ==
    /\ last.op = "static_cast" /\ last.form \in CastForms \ PointerForms
    /\ last.w \in Wrappers /\ wr[last.w].alive /\ _empty_(MemNow, last.w)
    /\ status = "run" /\ last.out = BadCast

\* the unchecked cast of a null pointer has given a null pointer
C29_WitnessNull ==
    /\ last.op = "static_cast" /\ last.w = "nullptr"
    /\ status = "run" /\ last.out = NullAddr

\* the unchecked cast of the null pointer wrapper has given a null pointer
C29_WitnessNullWrapper ==
    /\ last.op = "static_cast" /\ last.w = "p" /\ ref_empty_(ptr)
    /\ last.form \in PointerForms /\ status = "run" /\ last.out = NullAddr

=============================================================================
